---- MODULE Spec2Model ----
(***************************************************************************)
(* Reverse-mode tape interpreter of CppAD as bundled with TMB               *)
(* (cppad/local/reverse_sweep.hpp): ReverseSweep, the full sweep, and       *)
(* myReverseSweep, the selective sweep over a marked operator list.         *)
(*                                                                          *)
(* A behaviour is one test of a caller: a first call of ReverseSweep with   *)
(* an all-false skip mask (the reference run), and, when that call returns, *)
(* a second call on the same tape and the same seeds, which is either       *)
(* ReverseSweep with a skip mask or myReverseSweep.                         *)
(* All vectors are indexed from 0 as in the source: v[i] is At(v, i).       *)
(***************************************************************************)
EXTENDS Integers, Sequences, FiniteSets, TLC

\* ------------------------------------------------------------------ bounds
\* highest Taylor order a call may ask for: d \in 0..MaxOrder
MaxOrder == 1
\* forward Taylor coefficients are drawn from 1..MaxVal (main specification)
MaxVal == 2
\* number of independent variables of every tape
n == 2

\* ------------------------------------------------------------------ helpers
At(s, i) == s[i + 1]
Put(s, i, v) == [s EXCEPT ![i + 1] = v]
Has(s, i) == i >= 0 /\ i < Len(s)
Zeros(len) == [i \in 1..len |-> 0]
NULL == -1

\* ------------------------------------------------------------------ opcodes
\* number of argument slots the player steps over for an operator
\* (CSumOp and CSkipOp have a variable number, recorded as 0)
NumArg(o) ==
  CASE o = "BeginOp" -> 1
    [] o = "EndOp" -> 0
    [] o = "InvOp" -> 0
    [] o \in {"AddvvOp", "SubvvOp", "MulvvOp", "MulpvOp"} -> 2
    [] o = "ParOp" -> 1
    [] o = "LdpOp" -> 3
    [] o = "ComOp" -> 4
    [] o = "DisOp" -> 2
    [] o = "PriOp" -> 5
    [] o \in {"StppOp", "StpvOp", "StvpOp", "StvvOp"} -> 3
    [] o = "CSumOp" -> 0
    [] o = "CSkipOp" -> 0
    [] o = "UserOp" -> 4
    [] o \in {"UsrapOp", "UsravOp", "UsrrpOp"} -> 1
    [] o = "UsrrvOp" -> 0
    [] OTHER -> 0

\* number of result variables of an operator
NumRes(o) ==
  CASE o \in {"BeginOp", "InvOp", "AddvvOp", "SubvvOp", "MulvvOp", "MulpvOp",
              "ParOp", "LdpOp", "DisOp", "CSumOp", "UsrrvOp"} -> 1
    [] OTHER -> 0

\* ------------------------------------------------------------------ tapes
Rec(o, a) == [op |-> o, arg |-> a]

\* an atomic group as recorded by the forward pass: the start marker, the
\* argument tokens, the result tokens, the end marker
Group(index, id, nn, mm, tokens) ==
  <<Rec("UserOp", <<index, id, nn, mm>>)>> \o tokens
     \o <<Rec("UserOp", <<index, id, nn, mm>>)>>

\* the records a piece of user code adds to a tape that holds v variables and
\* l load instructions so far, with the load map entries it adds
Seg(id, v, l) ==
  CASE id = "add" -> [recs |-> <<Rec("AddvvOp", <<v - 1, 1>>)>>, load |-> <<>>]
    [] id = "add12" -> [recs |-> <<Rec("AddvvOp", <<1, 2>>)>>, load |-> <<>>]
    [] id = "sub" -> [recs |-> <<Rec("SubvvOp", <<1, v - 1>>)>>, load |-> <<>>]
    [] id = "mul" -> [recs |-> <<Rec("MulvvOp", <<v - 1, 2>>)>>, load |-> <<>>]
    [] id = "mul12" -> [recs |-> <<Rec("MulvvOp", <<1, 2>>)>>, load |-> <<>>]
    [] id = "mulpv" -> [recs |-> <<Rec("MulpvOp", <<0, v - 1>>)>>, load |-> <<>>]
    [] id = "par" -> [recs |-> <<Rec("ParOp", <<1>>)>>, load |-> <<>>]
    [] id = "ldp" -> [recs |-> <<Rec("LdpOp", <<0, 0, l>>)>>, load |-> <<v - 1>>]
    [] id = "ldp0" -> [recs |-> <<Rec("LdpOp", <<0, 1, l>>)>>, load |-> <<0>>]
    [] id = "csum" ->
         [recs |-> <<Rec("CSumOp", <<1, 1, 0, v - 1, 1, 2>>)>>, load |-> <<>>]
    [] id = "cskip" ->
         [recs |-> <<Rec("CSkipOp", <<0, 0, 0, 1, 1, 0, 3, 1>>)>>, load |-> <<>>]
    [] id = "com" -> [recs |-> <<Rec("ComOp", <<0, 1, 1, 2>>)>>, load |-> <<>>]
    [] id = "dis" -> [recs |-> <<Rec("DisOp", <<0, v - 1>>)>>, load |-> <<>>]
    [] id = "pri" -> [recs |-> <<Rec("PriOp", <<1, v - 1, 0, v - 1, 0>>)>>,
                      load |-> <<>>]
    [] id = "stores" ->
         [recs |-> <<Rec("StppOp", <<0, 0, 1>>), Rec("StpvOp", <<0, 0, v - 1>>),
                     Rec("StvpOp", <<0, 1, 0>>), Rec("StvvOp", <<0, 1, v - 1>>)>>,
          load |-> <<>>]
    [] id = "sq11" ->
         [recs |-> Group(0, 7, 1, 1,
              <<Rec("UsravOp", <<v - 1>>), Rec("UsrrvOp", <<>>)>>),
          load |-> <<>>]
    [] id = "sq22" ->
         [recs |-> Group(0, 7, 2, 2,
              <<Rec("UsravOp", <<v - 1>>), Rec("UsravOp", <<v - 1>>),
                Rec("UsrrvOp", <<>>), Rec("UsrrvOp", <<>>)>>),
          load |-> <<>>]
    [] id = "sq12" ->
         [recs |-> Group(0, 7, 2, 2,
              <<Rec("UsravOp", <<1>>), Rec("UsravOp", <<2>>),
                Rec("UsrrvOp", <<>>), Rec("UsrrvOp", <<>>)>>),
          load |-> <<>>]
    [] id = "ss21" ->
         [recs |-> Group(1, 8, 2, 1,
              <<Rec("UsravOp", <<v - 1>>), Rec("UsrapOp", <<0>>),
                Rec("UsrrvOp", <<>>)>>),
          load |-> <<>>]
    [] id = "ss12" ->
         [recs |-> Group(1, 8, 1, 2,
              <<Rec("UsravOp", <<2>>), Rec("UsrrpOp", <<1>>),
                Rec("UsrrvOp", <<>>)>>),
          load |-> <<>>]
    [] id = "deleted" ->
         [recs |-> Group(2, 7, 1, 1,
              <<Rec("UsravOp", <<v - 1>>), Rec("UsrrvOp", <<>>)>>),
          load |-> <<>>]
    [] id = "noreverse" ->
         [recs |-> Group(3, 7, 1, 1,
              <<Rec("UsravOp", <<v - 1>>), Rec("UsrrvOp", <<>>)>>),
          load |-> <<>>]
    [] id \in {"bad_index", "bad_id", "bad_n", "bad_m"} ->
         [recs |-> <<Rec("UserOp",
                         <<IF id = "bad_index" THEN 1 ELSE 0,
                           IF id = "bad_id" THEN 9 ELSE 7,
                           IF id = "bad_n" THEN 2 ELSE 1,
                           IF id = "bad_m" THEN 2 ELSE 1>>),
                     Rec("UsravOp", <<v - 1>>), Rec("UsrrvOp", <<>>),
                     Rec("UserOp", <<0, 7, 1, 1>>)>>,
          load |-> <<>>]
    [] id = "av_zero" ->
         [recs |-> Group(0, 7, 1, 1,
              <<Rec("UsravOp", <<0>>), Rec("UsrrvOp", <<>>)>>),
          load |-> <<>>]
    [] id = "av_ahead" ->
         [recs |-> Group(0, 7, 1, 1,
              <<Rec("UsravOp", <<v>>), Rec("UsrrvOp", <<>>)>>),
          load |-> <<>>]
    [] id = "n0" ->
         [recs |-> Group(1, 8, 0, 1, <<Rec("UsrrvOp", <<>>)>>), load |-> <<>>]
    [] id = "m0" ->
         [recs |-> Group(1, 8, 1, 0, <<Rec("UsravOp", <<v - 1>>)>>),
          load |-> <<>>]
    [] id = "lone_av" -> [recs |-> <<Rec("UsravOp", <<1>>)>>, load |-> <<>>]
    [] id = "lone_ap" -> [recs |-> <<Rec("UsrapOp", <<0>>)>>, load |-> <<>>]
    [] id = "lone_rv" -> [recs |-> <<Rec("UsrrvOp", <<>>)>>, load |-> <<>>]
    [] id = "lone_rp" -> [recs |-> <<Rec("UsrrpOp", <<1>>)>>, load |-> <<>>]
    [] id = "open" ->
         [recs |-> <<Rec("UserOp", <<0, 7, 1, 1>>)>>, load |-> <<>>]
    [] id = "missres" ->
         [recs |-> Group(0, 7, 1, 1, <<Rec("UsravOp", <<v - 1>>)>>),
          load |-> <<>>]
    [] id = "nested" ->
         [recs |-> Group(0, 7, 1, 1,
              <<Rec("UsravOp", <<v - 1>>), Rec("UserOp", <<0, 7, 1, 1>>),
                Rec("UsrrvOp", <<>>)>>),
          load |-> <<>>]
    [] id = "begin_mid" -> [recs |-> <<Rec("BeginOp", <<0>>)>>, load |-> <<>>]
    [] id = "inv_mid" -> [recs |-> <<Rec("InvOp", <<>>)>>, load |-> <<>>]
    [] id = "end_mid" -> [recs |-> <<Rec("EndOp", <<>>)>>, load |-> <<>>]
    [] OTHER -> [recs |-> <<>>, load |-> <<>>]

RECURSIVE SumRes(_)
SumRes(recs) ==
  IF recs = <<>> THEN 0 ELSE NumRes(Head(recs).op) + SumRes(Tail(recs))

RECURSIVE Flatten(_)
Flatten(recs) ==
  IF recs = <<>> THEN <<>> ELSE Head(recs).arg \o Flatten(Tail(recs))

\* the records of the tape with body ids: BeginOp, n InvOp, the body, EndOp
RECURSIVE Body(_, _, _)
Body(ids, recs, load) ==
  IF ids = <<>> THEN [recs |-> recs, load |-> load]
  ELSE LET s == Seg(Head(ids), SumRes(recs), Len(load))
       IN Body(Tail(ids), recs \o s.recs, load \o s.load)

Prefix == <<Rec("BeginOp", <<0>>)>> \o [i \in 1..n |-> Rec("InvOp", <<>>)]

TapeOf(ids) ==
  LET b == Body(ids, Prefix, <<>>)
      recs == b.recs \o <<Rec("EndOp", <<>>)>>
  IN [recs |-> recs, load |-> b.load]

\* what the player holds of a recording
PlayerOf(t) ==
  [rec_op |-> [i \in 1..Len(t.recs) |-> t.recs[i].op],
   rec_op_arg |-> Flatten(t.recs),
   num_var_rec |-> SumRes(t.recs)]

\* the tape points an ADFun keeps per operator: opcode, first argument,
\* operator index, index of its last result variable
TapePoints(t) ==
  [i \in 1..Len(t.recs) |->
     [op |-> t.recs[i].op,
      op_arg |-> Len(Flatten(SubSeq(t.recs, 1, i - 1))),
      op_index |-> i - 1,
      var_index |-> SumRes(SubSeq(t.recs, 1, i)) - 1]]

Heads ==
  {"add", "add12", "sub", "mul", "mul12", "mulpv", "par", "ldp", "ldp0",
   "csum", "cskip", "com", "dis", "pri", "stores", "sq11", "sq22", "ss21", "ss12", "deleted",
   "noreverse", "bad_index", "bad_id", "bad_n", "bad_m", "av_zero", "av_ahead",
   "n0", "m0",
   "lone_av", "lone_ap", "lone_rv", "lone_rp", "open", "missres", "nested",
   "begin_mid", "inv_mid", "end_mid"}

Tails == {"add", "mul", "csum", "sq11", "ldp"}

Bodies ==
  {<<h>> : h \in Heads} \cup {<<h, t>> : h \in Heads, t \in Tails}
     \cup {<<t, h>> : t \in Tails, h \in Heads}


\* ------------------------------------------------------------------ state
VARIABLES
  \* borrowed by the sweep, read-only
  play, tp_, parameter, Taylor, cskip_op, var_by_load_op, d, NDEBUG,
  \* the adjoint matrix, numvar rows of K columns
  Partial,
  \* the playback cursor: current opcode, index of its first argument in
  \* rec_op_arg, operator index, index of its last result variable
  op, arg, i_op, i_var,
  \* work space used by UserOp
  user_state, user_index, user_id, user_i, user_j, user_m, user_n,
  user_ix, user_tx, user_ty, user_px, user_py, user_atom, user_ok,
  \* position of the call: start, next, fetched, done, fatal, ub
  pc, fatal,
  \* which sweep this call is, and the marked operator list of the function
  \* object and the iterator of the selective sweep over it
  sweep, op_mark_index_, it,
  \* the registered callback objects: the instance id each one holds, and the
  \* id the reverse routine called last by this sweep found in its object
  atom_id, seen_id,
  \* a second sweep that runs at the same time on the same callback objects
  other,
  \* the caller: which call this is, the seeded dependent variable, the
  \* adjoint matrix at entry, the rows the reference call left, the number
  \* of times a callback's reverse routine was entered in this call
  run, dep, Partial0, ref, ncall

inputs == <<play, tp_, parameter, Taylor, var_by_load_op, d, NDEBUG>>
cursor == <<op, arg, i_op, i_var>>
user_size == <<user_index, user_id, user_m, user_n, user_atom>>
user_buf == <<user_ix, user_tx, user_ty, user_px, user_py>>
user == <<user_state, user_i, user_j, user_ok, user_size, user_buf>>
marks == <<op_mark_index_, it>>
calls == <<ncall, atom_id, seen_id>>
caller == <<run, dep, Partial0, ref, sweep, cskip_op, other>>
vars == <<inputs, Partial, cursor, user, pc, fatal, marks, calls, caller>>

numvar == play.num_var_rec
num_op_rec == Len(play.rec_op)
num_par == Len(parameter)
J == d + 1
K == d + 1
user_k == d
user_k1 == d + 1

\* arg[k] of the current operator
Arg(k) == At(play.rec_op_arg, arg + k)
HasArg(k) == Has(play.rec_op_arg, arg + k)
\* a variable index the current operator may read: defined before its result
IsVar(v) == v >= 0 /\ v < numvar
Row(P, v) == [k \in 0..d |-> At(P, v * K + k)]
TRow(v) == [k \in 0..d |-> At(Taylor, v * J + k)]
\* P with row v increased by f, order by order
AddRow(P, v, f) ==
  [idx \in 1..Len(P) |->
     IF (idx - 1) \div K = v THEN P[idx] + f[(idx - 1) % K] ELSE P[idx]]

\* ------------------------------------------------------------------ player
\* player::reverse_start: the cursor on the EndOp record
reverse_start ==
  [op |-> At(play.rec_op, num_op_rec - 1), arg |-> Len(play.rec_op_arg),
   i_op |-> num_op_rec - 1, i_var |-> numvar - 1]

\* player::reverse_next from cursor c: the record before it. ok is false when
\* there is no such record or its arguments or results run off the tape.
\* a cursor that steps two records back
reverse_next_two(c) ==
  LET i == c.i_op - 2
      o == IF Has(play.rec_op, i) THEN At(play.rec_op, i) ELSE "none"
      a == c.arg - NumArg(o)
      v == c.i_var - NumRes(c.op)
  IN [ok |-> i >= 0 /\ a >= 0 /\ v >= 0,
      op |-> o, arg |-> a, i_op |-> i, i_var |-> v]

reverse_next(c) ==
  LET i == c.i_op - 1
      o == IF Has(play.rec_op, i) THEN At(play.rec_op, i) ELSE "none"
      a == c.arg - NumArg(o)
      v == c.i_var - NumRes(c.op)
  IN [ok |-> i >= 0 /\ a >= 0 /\ v >= 0,
      op |-> o, arg |-> a, i_op |-> i, i_var |-> v]

\* player::reverse_csum: step the argument cursor over the arguments of a
\* CSumOp, whose number is recorded in the last of them
reverse_csum(c) ==
  LET cnt == IF Has(play.rec_op_arg, c.arg - 1)
             THEN At(play.rec_op_arg, c.arg - 1) ELSE -1
      a == c.arg - (cnt + 4)
  IN [ok |-> cnt >= 0 /\ a >= 0,
      op |-> c.op, arg |-> a, i_op |-> c.i_op, i_var |-> c.i_var]

\* player::reverse_cskip: the same for a CSkipOp
reverse_cskip(c) ==
  LET cnt == IF Has(play.rec_op_arg, c.arg - 1)
             THEN At(play.rec_op_arg, c.arg - 1) ELSE -1
      a == c.arg - (cnt + 7)
  IN [ok |-> cnt >= 0 /\ a >= 0,
      op |-> c.op, arg |-> a, i_op |-> c.i_op, i_var |-> c.i_var]

Cur == [ok |-> TRUE, op |-> op, arg |-> arg, i_op |-> i_op, i_var |-> i_var]
SetCursor(c) ==
  /\ op' = c.op
  /\ arg' = c.arg
  /\ i_op' = c.i_op
  /\ i_var' = c.i_var

\* a failed CPPAD_ASSERT_UNKNOWN or CPPAD_ASSERT_KNOWN ends the call in a
\* build without NDEBUG; msg names the condition
Abort(msg) ==
  /\ pc' = "fatal"
  /\ fatal' = [name |-> NULL, text |-> msg]

\* atomic_base<Base>::class_name: callbacks are named by their index here
class_name(index) == index

\* a failed CPPAD_ASSERT_KNOWN whose message starts with the callback's name
AbortNamed(index, msg) ==
  /\ pc' = "fatal"
  /\ fatal' = [name |-> class_name(index), text |-> msg]

\* an access outside a vector, or through a null pointer, in a build with
\* NDEBUG: the call has no defined outcome
Undefined ==
  /\ pc' = "ub"
  /\ fatal' = fatal

\* an assertion of the source: cond is asserted, then rest runs
Asserted(cond, msg, rest) ==
  IF ~NDEBUG /\ ~cond THEN Abort(msg) ELSE rest


\* ------------------------------------------------------------------ opcode rules
\* the operands of a binary operator are variables recorded before its result
BinaryOK ==
  /\ HasArg(0) /\ HasArg(1) /\ IsVar(i_var)
  /\ Arg(0) >= 0 /\ Arg(0) < i_var
  /\ Arg(1) >= 0 /\ Arg(1) < i_var

\* z = x + y: both operands take the adjoint of z, order by order
reverse_addvv_op(P) ==
  AddRow(AddRow(P, Arg(0), Row(P, i_var)), Arg(1), Row(P, i_var))

\* z = x - y
reverse_subvv_op(P) ==
  AddRow(AddRow(P, Arg(0), Row(P, i_var)), Arg(1),
         [k \in 0..d |-> 0 - Row(P, i_var)[k]])

\* z = x * y, the Cauchy product: for j = d..0 and k = 0..j,
\* px[j-k] += pz[j] * y[k] and py[k] += pz[j] * x[j-k]
RECURSIVE mulvv_inner(_, _, _)
mulvv_inner(P, j, k) ==
  IF k > j THEN P
  ELSE LET pz == At(P, i_var * K + j)
           P1 == Put(P, Arg(0) * K + (j - k),
                     At(P, Arg(0) * K + (j - k))
                       + pz * At(Taylor, Arg(1) * J + k))
           P2 == Put(P1, Arg(1) * K + k,
                     At(P1, Arg(1) * K + k)
                       + pz * At(Taylor, Arg(0) * J + (j - k)))
       IN mulvv_inner(P2, j, k + 1)

RECURSIVE mulvv_outer(_, _)
mulvv_outer(P, j) ==
  IF j < 0 THEN P ELSE mulvv_outer(mulvv_inner(P, j, 0), j - 1)

reverse_mulvv_op(P) == mulvv_outer(P, d)

\* z = p * y with p = parameter[arg[0]]: py[j] += pz[j] * p
MulpvOK ==
  /\ HasArg(0) /\ HasArg(1) /\ IsVar(i_var)
  /\ Has(parameter, Arg(0))
  /\ Arg(1) >= 0 /\ Arg(1) < i_var

reverse_mulpv_op(P) ==
  AddRow(P, Arg(1),
         [k \in 0..d |-> Row(P, i_var)[k] * At(parameter, Arg(0))])

\* z = sum of arg[0] variables minus arg[1] variables plus a parameter:
\* arg[3..] are the added variables, then the subtracted ones; a is the index
\* of arg[0] in rec_op_arg
ArgAt(a, k) == At(play.rec_op_arg, a + k)

RECURSIVE csum_terms(_, _, _, _, _)
csum_terms(a, P, i, cnt, sign) ==
  IF cnt = 0 THEN P
  ELSE csum_terms(a,
         AddRow(P, ArgAt(a, i), [k \in 0..d |-> sign * Row(P, i_var)[k]]),
         i + 1, cnt - 1, sign)

CSumOK(a) ==
  /\ Has(play.rec_op_arg, a) /\ Has(play.rec_op_arg, a + 1) /\ IsVar(i_var)
  /\ ArgAt(a, 0) >= 0 /\ ArgAt(a, 1) >= 0
  /\ Has(play.rec_op_arg, a + 2 + ArgAt(a, 0) + ArgAt(a, 1))
  /\ \A i \in 3..(2 + ArgAt(a, 0) + ArgAt(a, 1)) :
        ArgAt(a, i) >= 0 /\ ArgAt(a, i) < i_var

reverse_csum_op(a, P) ==
  csum_terms(a, csum_terms(a, P, 3, ArgAt(a, 0), 1),
             3 + ArgAt(a, 0), ArgAt(a, 1), -1)

\* z = v[x] read through the load map: the variable var_by_load_op[arg[2]]
\* takes the adjoint of z; nothing when the entry is 0 (a parameter)
LoadOK ==
  /\ HasArg(2) /\ IsVar(i_var)
  /\ Has(var_by_load_op, Arg(2))
  /\ At(var_by_load_op, Arg(2)) >= 0
  /\ At(var_by_load_op, Arg(2)) < i_var

reverse_load_op(P) ==
  LET i_load == At(var_by_load_op, Arg(2))
  IN IF i_load > 0 THEN AddRow(P, i_load, Row(P, i_var)) ELSE P

\* the overload without the load map, as myReverseSweep calls it: the
\* variable index is taken from arg[2] itself
MyLoadOK ==
  /\ HasArg(2) /\ IsVar(i_var)
  /\ Arg(2) >= 0 /\ Arg(2) < i_var

my_reverse_load_op(P) ==
  IF Arg(2) > 0 THEN AddRow(P, Arg(2), Row(P, i_var)) ELSE P

\* ------------------------------------------------------------------ atomic callbacks
\* atomic_base<Base>::class_object: the live callback with this index, or NULL
class_object(index) == IF index \in {0, 1, 3} THEN index ELSE NULL

RECURSIVE SumFn(_, _, _)
SumFn(f, lo, hi) == IF lo > hi THEN 0 ELSE f[lo] + SumFn(f, lo + 1, hi)

\* adjoint of order a of x where y = x * x, from the adjoints py of y:
\* sum over l >= a of py[l] * 2 * x[l-a]; tx and py are rows 0..k
SquareAdjoint(k, tx, py, a) ==
  SumFn([l \in a..k |-> py[l] * 2 * tx[l - a]], a, k)

Slot(buf, k, j) == [l \in 0..k |-> At(buf, j * (k + 1) + l)]

\* the reverse routine of the callback atom, of order k, for nn arguments and
\* mm results: whether it succeeds and the argument adjoints it returns (it
\* writes the first nn slots of px).
\*   0: element-wise square, y[j] = x[j]^2 (needs as many results as arguments)
\*   1: every result is the sum of the squares of the arguments
\*   3: a callback that does not implement reverse mode: it returns false and
\*      writes nothing
user_reverse(atom, k, nn, mm, tx, ty, px, py) ==
  CASE atom = 0 /\ nn = mm ->
         [ok |-> TRUE,
          px |-> [idx \in 1..Len(px) |->
                    LET j == (idx - 1) \div (k + 1)
                        a == (idx - 1) % (k + 1)
                    IN IF j >= nn THEN px[idx]
                       ELSE SquareAdjoint(k, Slot(tx, k, j), Slot(py, k, j), a)]]
    [] atom = 1 ->
         [ok |-> TRUE,
          px |-> [idx \in 1..Len(px) |->
                    LET j == (idx - 1) \div (k + 1)
                        a == (idx - 1) % (k + 1)
                    IN IF j >= nn THEN px[idx]
                       ELSE SumFn([i \in 0..(mm - 1) |->
                                     SquareAdjoint(k, Slot(tx, k, j),
                                                   Slot(py, k, i), a)],
                                  0, mm - 1)]]
    [] OTHER -> [ok |-> FALSE, px |-> px]

\* atomic_base<Base>::reverse takes the sizes from the vectors it is given
atomic_reverse(atom, k, tx, ty, px, py) ==
  user_reverse(atom, k, Len(tx) \div (k + 1), Len(ty) \div (k + 1),
               tx, ty, px, py)

\* CppAD::vector<T>::resize: the elements are kept when the vector does not
\* grow, and a grown vector is new, value-initialized memory
resize(v, len) == IF len <= Len(v) THEN SubSeq(v, 1, len) ELSE Zeros(len)


\* ------------------------------------------------------------------ ReverseSweep
\* the record under the cursor is to be dispatched: in the full sweep, when
\* the skip mask does not flag it
\* a record is fetched, flagged by the mask or not
Fetched == pc = "fetched"

Live == pc = "fetched" /\ (sweep = "selective" \/ ~At(cskip_op, i_op))

Resume ==
  /\ pc' = "next"
  /\ fatal' = fatal

\* a rule whose operands are on the tape updates the adjoint matrix; a rule
\* given operands off the tape fails its own assertions, or reads outside
\* the matrix in a build with NDEBUG
Apply(ok, P) ==
  IF ok THEN Partial' = P /\ Resume
  ELSE /\ Partial' = Partial
       /\ IF NDEBUG THEN Undefined ELSE Abort("unknown")

\* the locals of a call, lines 176-218 and 756-792
InitLocals ==
  /\ user_state' = "user_end"
  /\ user_index' = 0
  /\ user_id' = 0
  /\ user_i' = 0
  /\ user_j' = 0
  /\ user_m' = 0
  /\ user_n' = 0
  /\ user_ix' = <<>>
  /\ user_tx' = <<>>
  /\ user_ty' = <<>>
  /\ user_px' = <<>>
  /\ user_py' = <<>>
  /\ user_atom' = NULL
  /\ user_ok' = FALSE
  /\ ncall' = 0
  /\ seen_id' = NULL
  /\ atom_id' = atom_id

\* lines 183-222: the cursor is put on the last record, which is EndOp
ReverseStart ==
  /\ pc = "start" /\ sweep = "full"
  /\ InitLocals
  /\ SetCursor(reverse_start)
  /\ Asserted(numvar > 0 /\ reverse_start.op = "EndOp", "unknown", Resume)
  /\ UNCHANGED <<inputs, Partial, marks, caller>>

\* lines 229-232: the next record, and the checks of the tape layout
ReverseNext ==
  /\ pc = "next" /\ sweep = "full"
  /\ LET c == reverse_next(Cur)
     IN IF ~c.ok
        THEN /\ UNCHANGED cursor
             /\ IF NDEBUG THEN Undefined ELSE Abort("player")
        ELSE /\ SetCursor(c)
             /\ Asserted(/\ (c.i_op > n) \/ (c.op = "InvOp") \/ (c.op = "BeginOp")
                         /\ (c.i_op <= n) \/ (c.op # "InvOp") \/ (c.op # "BeginOp")
                         /\ c.i_op < num_op_rec,
                         "unknown",
                         pc' = "fetched" /\ fatal' = fatal)
  /\ UNCHANGED <<inputs, Partial, user, marks, calls, caller>>

\* lines 236-239: if( op == CSumOp ) play->reverse_csum(op, arg, i_op, i_var)
skip_step(c) == IF c.op = "CSumOp" THEN reverse_csum(c) ELSE c

\* lines 235-242: a record the mask flags is passed over, a CSumOp with the
\* step over its arguments, and the record before it is fetched
SkipRecord ==
  /\ pc = "fetched" /\ sweep = "full" /\ At(cskip_op, i_op)
  /\ LET c1 == skip_step(Cur)
         c2 == reverse_next(c1)
     IN IF ~c1.ok \/ ~c2.ok
        THEN /\ UNCHANGED cursor
             /\ IF NDEBUG THEN Undefined ELSE Abort("player")
        ELSE /\ SetCursor(c2)
             /\ Asserted(c2.i_op < num_op_rec, "unknown",
                         pc' = "fetched" /\ fatal' = fatal)
  /\ UNCHANGED <<inputs, Partial, user, marks, calls, caller>>

\* an AddvvOp case that calls the rule of SubvvOp
CaseAddvvAsSubvv ==
  /\ Live /\ op = "AddvvOp"
  /\ Apply(BinaryOK, reverse_subvv_op(Partial))
  /\ UNCHANGED <<inputs, cursor, user, marks, calls, caller>>

\* lines 276-280
CaseAddvvOp ==
  /\ Live /\ op = "AddvvOp"
  /\ Apply(BinaryOK, reverse_addvv_op(Partial))
  /\ UNCHANGED <<inputs, cursor, user, marks, calls, caller>>

\* lines 533-537
CaseSubvvOp ==
  /\ Live /\ op = "SubvvOp"
  /\ Apply(BinaryOK, reverse_subvv_op(Partial))
  /\ UNCHANGED <<inputs, cursor, user, marks, calls, caller>>

\* a MulvvOp case that calls the rule of AddvvOp
CaseMulvvAsAddvv ==
  /\ Live /\ op = "MulvvOp"
  /\ Apply(BinaryOK, reverse_addvv_op(Partial))
  /\ UNCHANGED <<inputs, cursor, user, marks, calls, caller>>

\* lines 439-443
CaseMulvvOp ==
  /\ Live /\ op = "MulvvOp"
  /\ Apply(BinaryOK, reverse_mulvv_op(Partial))
  /\ UNCHANGED <<inputs, cursor, user, marks, calls, caller>>

\* lines 446-451
CaseMulpvOp ==
  /\ Live /\ op = "MulpvOp"
  /\ Apply(MulpvOK, reverse_mulpv_op(Partial))
  /\ UNCHANGED <<inputs, cursor, user, marks, calls, caller>>

\* the opcodes whose case is a bare break: lines 359-360 ComOp, 379-382 DisOp,
\* 428-429 InvOp, 454-455 ParOp, 481-483 PriOp, 517-530 StppOp, StpvOp, StvpOp,
\* StvvOp (925, 945, 994, 1020, 1047, 1083-1096 in myReverseSweep)
NoRuleOps ==
  {"ComOp", "DisOp", "InvOp", "ParOp", "PriOp",
   "StppOp", "StpvOp", "StvpOp", "StvvOp"}

\* a discrete function handled as the identity: the adjoint of the result is
\* added to the row of the operand
CaseDisAsIdentity ==
  /\ Live /\ op \in NoRuleOps
  /\ Partial' = IF op = "DisOp" /\ IsVar(Arg(1))
                THEN AddRow(Partial, Arg(1), Row(Partial, i_var))
                ELSE Partial
  /\ Resume
  /\ UNCHANGED <<inputs, cursor, user, marks, calls, caller>>

\* these records have no rule
CaseNoRule ==
  /\ Live /\ op \in NoRuleOps
  /\ Resume
  /\ UNCHANGED <<inputs, Partial, cursor, user, marks, calls, caller>>


\* a cursor that has not run off the front of the tape
OnTape == i_op >= 0 /\ i_var >= 0

\* lines 704-705: the values corresponding to BeginOp
AtBegin == i_op = 0 /\ i_var = 0

\* lines 318-321 and 703-705: BeginOp ends the loop, and the cursor is then
\* asserted to be on record 0, variable 0
CaseBeginOp ==
  /\ Live /\ sweep = "full" /\ op = "BeginOp"
  /\ Asserted(NumArg(op) = 1 /\ NumRes(op) = 1 /\ AtBegin,
              "unknown",
              pc' = "done" /\ fatal' = fatal)
  /\ UNCHANGED <<inputs, Partial, cursor, user, marks, calls, caller>>

\* a CSkipOp case that flags the operators of the record in the skip mask, as
\* the forward sweep does
CaseCSkipAsForward ==
  /\ Live /\ sweep = "full" /\ op = "CSkipOp"
  /\ LET c == reverse_cskip(Cur)
     IN IF c.ok THEN SetCursor(c) /\ Resume
        ELSE /\ UNCHANGED cursor
             /\ IF NDEBUG THEN Undefined ELSE Abort("player")
  /\ cskip_op' = [i \in 1..Len(cskip_op) |-> cskip_op[i] \/ i = n + 2]
  /\ UNCHANGED <<inputs, Partial, user, marks, calls, run, dep, Partial0, ref,
                 sweep, other>>

\* lines 324-329: the cursor is stepped over the arguments of the CSkipOp
CaseCSkipOp ==
  /\ Live /\ sweep = "full" /\ op = "CSkipOp"
  /\ LET c == reverse_cskip(Cur)
     IN IF c.ok THEN SetCursor(c) /\ Resume
        ELSE /\ UNCHANGED cursor
             /\ IF NDEBUG THEN Undefined ELSE Abort("player")
  /\ UNCHANGED <<inputs, Partial, user, marks, calls, caller>>

\* lines 332-341: the cursor is stepped over the arguments of the CSumOp,
\* then its rule reads them
CaseCSumOp ==
  /\ Live /\ sweep = "full" /\ op = "CSumOp"
  /\ LET c == reverse_csum(Cur)
     IN IF c.ok
        THEN /\ SetCursor(c)
             /\ Apply(CSumOK(c.arg), reverse_csum_op(c.arg, Partial))
        ELSE /\ UNCHANGED <<cursor, Partial>>
             /\ IF NDEBUG THEN Undefined ELSE Abort("player")
  /\ UNCHANGED <<inputs, user, marks, calls, caller>>

\* lines 414-425
CaseLdpOp ==
  /\ Live /\ sweep = "full" /\ op = "LdpOp"
  /\ Apply(LoadOK, reverse_load_op(Partial))
  /\ UNCHANGED <<inputs, cursor, user, marks, calls, caller>>

\* lines 696-697: an opcode the switch does not name
CaseDefault ==
  /\ Live /\ sweep = "full" /\ op \in {"EndOp", "none"}
  /\ Asserted(FALSE, "unknown", Resume)
  /\ UNCHANGED <<inputs, Partial, cursor, user, marks, calls, caller>>


\* ------------------------------------------------------------------ atomic protocol
\* the inner loop of lines 625-627 with = for +=
RECURSIVE scatter_ell_assign(_, _, _, _, _)
scatter_ell_assign(P, ix, px, j, ell) ==
  IF ell >= user_k1 THEN P
  ELSE scatter_ell_assign(
         Put(P, At(ix, j) * K + ell, At(px, j * user_k1 + ell)),
         ix, px, j, ell + 1)

\* lines 624-628: for (j < user_n) if (user_ix[j] > 0) for (ell < user_k1)
\*   Partial[user_ix[j] * K + ell] += user_px[j * user_k1 + ell]
RECURSIVE scatter_ell(_, _, _, _, _)
scatter_ell(P, ix, px, j, ell) ==
  IF ell >= user_k1 THEN P
  ELSE scatter_ell(
         Put(P, At(ix, j) * K + ell,
             At(P, At(ix, j) * K + ell) + At(px, j * user_k1 + ell)),
         ix, px, j, ell + 1)

RECURSIVE scatter_j(_, _, _, _, _)
scatter_j(P, ix, px, nn, j) ==
  IF j >= nn THEN P
  ELSE scatter_j(IF At(ix, j) > 0 THEN scatter_ell(P, ix, px, j, 0) ELSE P,
                 ix, px, nn, j + 1)

Scatter(P, ix, px, nn) == scatter_j(P, ix, px, nn, 0)

\* every read and write of the scatter loop is inside its vector
ScatterOK(P, ix, px, nn) ==
  /\ nn <= Len(ix)
  /\ nn * user_k1 <= Len(px)
  /\ \A j \in 0..(nn - 1) : At(ix, j) >= 0 /\ At(ix, j) < numvar

\* lines 576-603: a UserOp met in state user_end is the end marker of a group
UserOpEnd ==
  /\ user_index' = Arg(0)
  /\ user_id' = Arg(1)
  /\ user_n' = Arg(2)
  /\ user_m' = Arg(3)
  /\ user_atom' = class_object(Arg(0))
  /\ IF ~NDEBUG /\ class_object(Arg(0)) = NULL
     THEN /\ AbortNamed(Arg(0), "atomic_base function has been deleted")
          /\ UNCHANGED <<user_state, user_i, user_j, user_buf>>
     ELSE /\ user_ix' = IF Len(user_ix) # Arg(2)
                        THEN resize(user_ix, Arg(2)) ELSE user_ix
          /\ user_tx' = IF Len(user_tx) # Arg(2) * user_k1
                        THEN resize(user_tx, Arg(2) * user_k1) ELSE user_tx
          /\ user_px' = IF Len(user_tx) # Arg(2) * user_k1
                        THEN resize(user_px, Arg(2) * user_k1) ELSE user_px
          /\ user_ty' = IF Len(user_ty) # Arg(3) * user_k1
                        THEN resize(user_ty, Arg(3) * user_k1) ELSE user_ty
          /\ user_py' = IF Len(user_ty) # Arg(3) * user_k1
                        THEN resize(user_py, Arg(3) * user_k1) ELSE user_py
          /\ user_j' = Arg(2)
          /\ user_i' = Arg(3)
          /\ user_state' = "user_ret"
          /\ Resume
  /\ UNCHANGED <<Partial, user_ok, calls>>

\* the start marker is compared with the callback index only
MarkerIndexMatches == user_index = Arg(0)

\* lines 606-609: the start marker carries the values saved at the end marker
MarkerMatches ==
  /\ user_index = Arg(0) /\ user_id = Arg(1)
  /\ user_n = Arg(2) /\ user_m = Arg(3)

\* the result of the reverse routine is not looked at
ReverseResultIgnored(ok) == FALSE

\* lines 616-623: # ifndef NDEBUG if( ! user_ok )
ReverseReturnedFalse(ok) == ~NDEBUG /\ ~ok

\* atomic_base<Base>::set_id: the callback object keeps the id for the call
\* that follows; reg is the id every registered object holds
set_id(reg, atom, id) == [reg EXCEPT ![atom] = id]

\* lines 613-629: the reverse routine of user_atom is called while the
\* objects hold the ids reg, and the argument adjoints it returns are added to
\* the matrix
CallReverse(reg) ==
  LET r == atomic_reverse(user_atom, user_k,
                          user_tx, user_ty, user_px, user_py)
  IN /\ ncall' = ncall + 1
     /\ seen_id' = reg[user_atom]
     /\ user_px' = r.px
     /\ user_ok' = IF NDEBUG THEN user_ok ELSE r.ok
     /\ UNCHANGED <<user_i, user_j, user_size, user_ix, user_tx,
                    user_ty, user_py>>
     /\ IF ReverseReturnedFalse(r.ok)
        THEN /\ AbortNamed(user_index,
                        "atomic_base.reverse: returned false")
             /\ UNCHANGED <<Partial, user_state>>
        ELSE IF ~ScatterOK(Partial, user_ix, r.px, user_n)
        THEN /\ Undefined
             /\ UNCHANGED <<Partial, user_state>>
        ELSE /\ Partial' = Scatter(Partial, user_ix, r.px, user_n)
             /\ user_state' = "user_end"
             /\ Resume

\* lines 604-630: any other UserOp is the start marker: the id of the group
\* is given to the callback object, then its reverse routine is called
UserOpStart ==
  IF ~NDEBUG /\ ~(user_state = "user_start" /\ MarkerMatches)
  THEN /\ Abort("unknown")
       /\ UNCHANGED <<Partial, user, calls>>
  ELSE IF user_atom = NULL
  THEN /\ Undefined
       /\ UNCHANGED <<Partial, user, calls>>
  ELSE /\ atom_id' = set_id(atom_id, user_atom, user_id)
       /\ CallReverse(set_id(atom_id, user_atom, user_id))

\* lines 572-631
CaseUserOp ==
  /\ Live /\ sweep = "full" /\ op = "UserOp"
  /\ IF user_state = "user_end" THEN UserOpEnd ELSE UserOpStart
  /\ UNCHANGED <<inputs, cursor, marks, caller>>


\* lines 645-646 and 660-661: if( user_j == 0 ) user_state = user_start
arg_state(j, st) == IF j = 0 THEN "user_start" ELSE st

\* lines 676-677 and 691-692: if( user_i == 0 ) user_state = user_arg
ret_state(i, st) == IF i = 0 THEN "user_arg" ELSE st

\* an argument token is accepted whenever arguments remain
ArgsRemain == 0 < user_j /\ user_j <= user_n

\* lines 635-636 and 651-652
ArgTokenOK == user_state = "user_arg" /\ 0 < user_j /\ user_j <= user_n

\* lines 666-667 and 682-683
RetTokenOK == user_state = "user_ret" /\ 0 < user_i /\ user_i <= user_m

\* every token writes the first slot of its buffer
SetSlotFirst(buf, j, row) ==
  [idx \in 1..Len(buf) |->
     IF (idx - 1) \div user_k1 = 0 THEN row[(idx - 1) % user_k1] ELSE buf[idx]]

\* buffer buf with the user_k1 entries of slot j replaced by row
SetSlot(buf, j, row) ==
  [idx \in 1..Len(buf) |->
     IF (idx - 1) \div user_k1 = j THEN row[(idx - 1) % user_k1] ELSE buf[idx]]

HasSlot(buf, j) == j >= 0 /\ (j + 1) * user_k1 <= Len(buf)

\* lines 633-647 (and 1182-1196): a parameter argument of an atomic group
CaseUsrapOp ==
  /\ Live /\ op = "UsrapOp"
  /\ IF ~NDEBUG /\ ~(/\ ArgTokenOK
                     /\ NumArg(op) = 1
                     /\ Arg(0) < num_par)
     THEN Abort("unknown") /\ UNCHANGED user
     ELSE IF ~(/\ Has(user_ix, user_j - 1) /\ HasSlot(user_tx, user_j - 1)
               /\ Has(parameter, Arg(0)))
     THEN Undefined /\ UNCHANGED user
     ELSE /\ user_j' = user_j - 1
          /\ user_ix' = Put(user_ix, user_j - 1, 0)
          /\ user_tx' = SetSlot(user_tx, user_j - 1,
                          [ell \in 0..d |->
                             IF ell = 0 THEN At(parameter, Arg(0)) ELSE 0])
          /\ user_state' = arg_state(user_j - 1, user_state)
          /\ Resume
          /\ UNCHANGED <<user_i, user_ok, user_size, user_ty, user_px, user_py>>
  /\ UNCHANGED <<inputs, Partial, cursor, marks, calls, caller>>

\* the argument is checked to be a variable index above 0 only
ArgVarPositive == 0 < Arg(0)

\* lines 653-654: the argument is a variable defined before the token
ArgVarOK == Arg(0) <= i_var /\ 0 < Arg(0)

\* a variable argument recorded without its owner: user_ix gets 0
CaseUsravNoOwner ==
  /\ Live /\ op = "UsravOp"
  /\ IF ~NDEBUG /\ ~(/\ ArgTokenOK
                     /\ NumArg(op) = 1
                     /\ ArgVarOK)
     THEN Abort("unknown") /\ UNCHANGED user
     ELSE IF ~(/\ Has(user_ix, user_j - 1) /\ HasSlot(user_tx, user_j - 1)
               /\ IsVar(Arg(0)))
     THEN Undefined /\ UNCHANGED user
     ELSE /\ user_j' = user_j - 1
          /\ user_ix' = Put(user_ix, user_j - 1, 0)
          /\ user_tx' = SetSlot(user_tx, user_j - 1, TRow(Arg(0)))
          /\ user_state' = arg_state(user_j - 1, user_state)
          /\ Resume
          /\ UNCHANGED <<user_i, user_ok, user_size, user_ty, user_px, user_py>>
  /\ UNCHANGED <<inputs, Partial, cursor, marks, calls, caller>>

\* lines 649-662 (and 1198-1211): a variable argument of an atomic group
CaseUsravOp ==
  /\ Live /\ op = "UsravOp"
  /\ IF ~NDEBUG /\ ~(/\ ArgTokenOK
                     /\ NumArg(op) = 1
                     /\ ArgVarOK)
     THEN Abort("unknown") /\ UNCHANGED user
     ELSE IF ~(/\ Has(user_ix, user_j - 1) /\ HasSlot(user_tx, user_j - 1)
               /\ IsVar(Arg(0)))
     THEN Undefined /\ UNCHANGED user
     ELSE /\ user_j' = user_j - 1
          /\ user_ix' = Put(user_ix, user_j - 1, Arg(0))
          /\ user_tx' = SetSlot(user_tx, user_j - 1, TRow(Arg(0)))
          /\ user_state' = arg_state(user_j - 1, user_state)
          /\ Resume
          /\ UNCHANGED <<user_i, user_ok, user_size, user_ty, user_px, user_py>>
  /\ UNCHANGED <<inputs, Partial, cursor, marks, calls, caller>>

\* lines 664-678 (and 1213-1227): a parameter result of an atomic group
CaseUsrrpOp ==
  /\ Live /\ op = "UsrrpOp"
  /\ IF ~NDEBUG /\ ~(/\ RetTokenOK
                     /\ NumArg(op) = 1
                     /\ Arg(0) < num_par)
     THEN Abort("unknown") /\ UNCHANGED user
     ELSE IF ~(/\ HasSlot(user_ty, user_i - 1) /\ HasSlot(user_py, user_i - 1)
               /\ Has(parameter, Arg(0)))
     THEN Undefined /\ UNCHANGED user
     ELSE /\ user_i' = user_i - 1
          /\ user_py' = SetSlot(user_py, user_i - 1, [ell \in 0..d |-> 0])
          /\ user_ty' = SetSlot(user_ty, user_i - 1,
                          [ell \in 0..d |->
                             IF ell = 0 THEN At(parameter, Arg(0)) ELSE 0])
          /\ user_state' = ret_state(user_i - 1, user_state)
          /\ Resume
          /\ UNCHANGED <<user_j, user_ok, user_size, user_ix, user_tx, user_px>>
  /\ UNCHANGED <<inputs, Partial, cursor, marks, calls, caller>>

\* a variable result handled as a parameter result is: py gets zeros
CaseUsrrvNoAdjoint ==
  /\ Live /\ op = "UsrrvOp"
  /\ IF ~NDEBUG /\ ~RetTokenOK
     THEN Abort("unknown") /\ UNCHANGED user
     ELSE IF ~(/\ HasSlot(user_ty, user_i - 1) /\ HasSlot(user_py, user_i - 1)
               /\ IsVar(i_var))
     THEN Undefined /\ UNCHANGED user
     ELSE /\ user_i' = user_i - 1
          /\ user_py' = SetSlot(user_py, user_i - 1, [ell \in 0..d |-> 0])
          /\ user_ty' = SetSlot(user_ty, user_i - 1, TRow(i_var))
          /\ user_state' = ret_state(user_i - 1, user_state)
          /\ Resume
          /\ UNCHANGED <<user_j, user_ok, user_size, user_ix, user_tx, user_px>>
  /\ UNCHANGED <<inputs, Partial, cursor, marks, calls, caller>>

\* lines 680-693 (and 1229-1242): a variable result of an atomic group
CaseUsrrvOp ==
  /\ Live /\ op = "UsrrvOp"
  /\ IF ~NDEBUG /\ ~RetTokenOK
     THEN Abort("unknown") /\ UNCHANGED user
     ELSE IF ~(/\ HasSlot(user_ty, user_i - 1) /\ HasSlot(user_py, user_i - 1)
               /\ IsVar(i_var))
     THEN Undefined /\ UNCHANGED user
     ELSE /\ user_i' = user_i - 1
          /\ user_py' = SetSlot(user_py, user_i - 1, Row(Partial, i_var))
          /\ user_ty' = SetSlot(user_ty, user_i - 1, TRow(i_var))
          /\ user_state' = ret_state(user_i - 1, user_state)
          /\ Resume
          /\ UNCHANGED <<user_j, user_ok, user_size, user_ix, user_tx, user_px>>
  /\ UNCHANGED <<inputs, Partial, cursor, marks, calls, caller>>


\* ------------------------------------------------------------------ marked operator list
OpIdx == 0..(num_op_rec - 1)
TP(i) == At(tp_, i)
TPArg(i, k) == At(play.rec_op_arg, TP(i).op_arg + k)

\* the operator that has variable v as its result
Var2Op(v) ==
  CHOOSE i \in OpIdx : TP(i).var_index = v /\ NumRes(TP(i).op) > 0

SetMax(S) == CHOOSE x \in S : \A y \in S : y <= x
SetMin(S) == CHOOSE x \in S : \A y \in S : x <= y

\* the records of the atomic group around record i: from the marker before it
\* to the marker after it
GroupOf(i) ==
  LET before == {j \in OpIdx : j < i /\ TP(j).op = "UserOp"}
      after == {j \in OpIdx : j > i /\ TP(j).op = "UserOp"}
  IN IF before = {} \/ after = {} THEN {i}
     ELSE SetMax(before)..SetMin(after)

\* the variables record i reads
OperandVars(i) ==
  LET o == TP(i).op
  IN CASE o \in {"AddvvOp", "SubvvOp", "MulvvOp"} -> {TPArg(i, 0), TPArg(i, 1)}
       [] o = "MulpvOp" -> {TPArg(i, 1)}
       [] o = "UsravOp" -> {TPArg(i, 0)}
       [] o = "LdpOp" -> {At(var_by_load_op, TPArg(i, 2))}
       [] o = "CSumOp" ->
            {TPArg(i, k) : k \in 3..(2 + TPArg(i, 0) + TPArg(i, 1))}
       [] OTHER -> {}

\* the records marked with the operator of variable v: the whole atomic group
\* when v is a result of one
Members(v) ==
  LET i == Var2Op(v)
  IN IF TP(i).op = "UsrrvOp" THEN GroupOf(i) ELSE {i}

RECURSIVE Closure(_)
Closure(S) ==
  LET vs == {v \in UNION {OperandVars(i) : i \in S} : v >= 1 /\ v < numvar}
      T == S \cup UNION {Members(v) : v \in vs}
  IN IF T = S THEN S ELSE Closure(T)

RECURSIVE SortedSeq(_)
SortedSeq(S) ==
  IF S = {} THEN <<>> ELSE <<SetMin(S)>> \o SortedSeq(S \ {SetMin(S)})

\* the operators variable v depends on, in increasing operator index. keep:
\* whether the list also holds record 0 ("begin"), or record 0 and the
\* CSkipOp records ("structure")
MarkedList(v, keep) ==
  SortedSeq(Closure(Members(v))
              \cup (IF keep \in {"begin", "structure"} THEN {0} ELSE {})
              \cup (IF keep = "structure"
                    THEN {i \in OpIdx : TP(i).op = "CSkipOp"} ELSE {}))

\* ADFun::prepare_reverse_sweep: the marked operator list the function object
\* holds after the call
prepare_reverse_sweep(v, keep) == MarkedList(v, keep)

\* ------------------------------------------------------------------ myReverseSweep
\* line 803: it = pf->op_mark_index_.rbegin()
rbegin == Len(op_mark_index_)

\* lines 753-798: the function object marks the operators the variable
\* depends on; the locals are declared, op, i_op and i_var without a value,
\* and op is asserted to be EndOp before anything is assigned to it
myReverseStart ==
  /\ pc = "start" /\ sweep = "selective"
  /\ InitLocals
  /\ op' = "indeterminate"
  /\ arg' = 0
  /\ i_op' = -1
  /\ i_var' = -1
  /\ \E keep \in {"results", "begin", "structure"} :
       op_mark_index_' = prepare_reverse_sweep(dep, keep)
  /\ it' = rbegin'
  /\ \/ Resume
     \/ ~NDEBUG /\ Abort("unknown")
  /\ UNCHANGED <<inputs, Partial, caller>>

\* lines 803-818: the cursor is read from the tape point of the next marked
\* operator, last to first
myReverseNext ==
  /\ pc = "next" /\ sweep = "selective" /\ it > 0
  /\ LET t == TP(op_mark_index_[it])
     IN /\ op' = t.op
        /\ arg' = t.op_arg
        /\ i_op' = t.op_index
        /\ i_var' = t.var_index
        /\ Asserted(IF t.op_index <= n
                    THEN (t.op = "InvOp") \/ (t.op = "BeginOp")
                    ELSE (t.op # "InvOp") /\ (t.op # "BeginOp"),
                    "unknown",
                    pc' = "fetched" /\ fatal' = fatal)
  /\ it' = it - 1
  /\ op_mark_index_' = op_mark_index_
  /\ UNCHANGED <<inputs, Partial, user, calls, caller>>

\* lines 1252-1254: after the last marked operator the cursor is asserted to be
\* on record 0, variable 0
myReverseEnd ==
  /\ pc = "next" /\ sweep = "selective" /\ it = 0
  /\ Asserted(AtBegin, "unknown", pc' = "done" /\ fatal' = fatal)
  /\ UNCHANGED <<inputs, Partial, cursor, user, marks, calls, caller>>

\* lines 891-893
myCaseBeginOp ==
  /\ Live /\ sweep = "selective" /\ op = "BeginOp"
  /\ Asserted(NumArg(op) = 0 /\ NumRes(op) = 1, "unknown", Resume)
  /\ UNCHANGED <<inputs, Partial, cursor, user, marks, calls, caller>>

\* lines 896-907: the tape point already holds the first argument of a CSumOp
myCaseCSumOp ==
  /\ Live /\ sweep = "selective" /\ op = "CSumOp"
  /\ Apply(CSumOK(arg), reverse_csum_op(arg, Partial))
  /\ UNCHANGED <<inputs, cursor, user, marks, calls, caller>>

\* lines 980-991: reverse_load_op is called without the load map
myCaseLdpOp ==
  /\ Live /\ sweep = "selective" /\ op = "LdpOp"
  /\ Apply(MyLoadOK, my_reverse_load_op(Partial))
  /\ UNCHANGED <<inputs, cursor, user, marks, calls, caller>>

\* lines 1142-1160: buffers only grow
myUserOpEnd ==
  /\ user_index' = Arg(0)
  /\ user_id' = Arg(1)
  /\ user_n' = Arg(2)
  /\ user_m' = Arg(3)
  /\ user_ix' = IF Len(user_ix) < Arg(2)
                THEN resize(user_ix, Arg(2)) ELSE user_ix
  /\ user_tx' = IF Len(user_tx) < Arg(2) * user_k1
                THEN resize(user_tx, Arg(2) * user_k1) ELSE user_tx
  /\ user_px' = IF Len(user_tx) < Arg(2) * user_k1
                THEN resize(user_px, Arg(2) * user_k1) ELSE user_px
  /\ user_ty' = IF Len(user_ty) < Arg(3) * user_k1
                THEN resize(user_ty, Arg(3) * user_k1) ELSE user_ty
  /\ user_py' = IF Len(user_ty) < Arg(3) * user_k1
                THEN resize(user_py, Arg(3) * user_k1) ELSE user_py
  /\ user_j' = Arg(2)
  /\ user_i' = Arg(3)
  /\ user_state' = "user_ret"
  /\ Resume
  /\ UNCHANGED <<Partial, user_ok, user_atom, calls>>

\* lines 1161-1179: user_atomic<Base>::reverse finds the callback by its index
\* and is given the sizes; its result is not looked at
myUserOpStart ==
  IF ~NDEBUG /\ ~(user_state = "user_start" /\ MarkerMatches)
  THEN /\ Abort("unknown")
       /\ UNCHANGED <<Partial, user, calls>>
  ELSE IF class_object(user_index) = NULL
  THEN /\ user_state' = "user_end"
       /\ IF NDEBUG THEN Undefined ELSE Abort("unknown")
       /\ UNCHANGED <<Partial, user_i, user_j, user_ok, user_size, user_buf,
                      calls>>
  ELSE LET r == user_reverse(class_object(user_index), user_k, user_n, user_m,
                             user_tx, user_ty, user_px, user_py)
       IN /\ ncall' = ncall + 1
          /\ seen_id' = user_id
          /\ atom_id' = atom_id
          /\ user_px' = r.px
          /\ user_state' = "user_end"
          /\ UNCHANGED <<user_i, user_j, user_ok, user_size, user_ix, user_tx,
                         user_ty, user_py>>
          /\ IF ~ScatterOK(Partial, user_ix, r.px, user_n)
             THEN Undefined /\ UNCHANGED Partial
             ELSE /\ Partial' = Scatter(Partial, user_ix, r.px, user_n)
                  /\ Resume

\* lines 1138-1180
myCaseUserOp ==
  /\ Live /\ sweep = "selective" /\ op = "UserOp"
  /\ IF user_state = "user_end" THEN myUserOpEnd ELSE myUserOpStart
  /\ UNCHANGED <<inputs, cursor, marks, caller>>

\* lines 1245-1246: myReverseSweep has no case for CSkipOp
myCaseDefault ==
  /\ Live /\ sweep = "selective" /\ op \in {"CSkipOp", "EndOp"}
  /\ Asserted(FALSE, "unknown", Resume)
  /\ UNCHANGED <<inputs, Partial, cursor, user, marks, calls, caller>>


\* ------------------------------------------------------------------ atomic groups on the tape
AtomicOps == {"UserOp", "UsrapOp", "UsravOp", "UsrrpOp", "UsrrvOp"}

\* the four values a marker record carries
MarkerArgs(i) == [k \in 0..3 |-> TPArg(i, k)]

\* where the group that ends with marker e starts, by the sizes e carries
GroupStart(e) == e - TPArg(e, 2) - TPArg(e, 3) - 1

\* record e is the end marker of a group recorded as: start marker with the
\* same four values, n argument tokens, m result tokens, end marker; with n
\* and m at least lo
IsGroupEnd(e, lo) ==
  /\ TP(e).op = "UserOp"
  /\ TPArg(e, 2) >= lo /\ TPArg(e, 3) >= lo
  /\ GroupStart(e) >= 1
  /\ TP(GroupStart(e)).op = "UserOp"
  /\ MarkerArgs(GroupStart(e)) = MarkerArgs(e)
  /\ \A i \in (GroupStart(e) + 1)..(GroupStart(e) + TPArg(e, 2)) :
        TP(i).op \in {"UsrapOp", "UsravOp"}
  /\ \A i \in (GroupStart(e) + TPArg(e, 2) + 1)..(e - 1) :
        TP(i).op \in {"UsrrpOp", "UsrrvOp"}

GroupEnds(lo) == {e \in OpIdx : IsGroupEnd(e, lo)}

\* the groups of the tape, each the set of its records
Groups(lo) == {GroupStart(e)..e : e \in GroupEnds(lo)}

\* the tape is a recording: BeginOp first, then the n independent variables,
\* EndOp last and none of the three elsewhere, and every marker and token in
\* exactly one group with at least lo arguments and lo results, every
\* variable argument of a group a variable recorded before it
ValidTape(lo) ==
  /\ \A i \in OpIdx :
       /\ TP(i).op = "BeginOp" <=> i = 0
       /\ TP(i).op = "InvOp" <=> i \in 1..n
       /\ TP(i).op = "EndOp" <=> i = num_op_rec - 1
       /\ TP(i).op = "UsravOp" =>
            0 < TPArg(i, 0) /\ TPArg(i, 0) <= TP(i).var_index
  /\ LET ends == GroupEnds(lo)
     IN \A i \in OpIdx :
          TP(i).op \in AtomicOps =>
            Cardinality({e \in ends : GroupStart(e) <= i /\ i <= e}) = 1

\* the tape holds no indirect load
NoLoads == \A i \in OpIdx : TP(i).op \notin {"LdpOp", "LdvOp"}

\* ------------------------------------------------------------------ the caller
\* forward Taylor coefficients of family t: row i, order k
TaylorOf(nv, dd, t) ==
  [idx \in 1..(nv * (dd + 1)) |->
     LET i == (idx - 1) \div (dd + 1)
         k == (idx - 1) % (dd + 1)
     IN 1 + ((i + t) % MaxVal) + k * (1 + (i % 2))]

\* the seeded adjoint matrix: weight w at order dd of row v, zero elsewhere
Seed(nv, dd, v, w) ==
  [idx \in 1..(nv * (dd + 1)) |-> IF idx - 1 = v * (dd + 1) + dd THEN w ELSE 0]

\* the records the seeded variable depends on
LiveOps == Closure(Members(dep))

\* skip masks that flag the records of S
MaskOf(S) == [i \in 1..num_op_rec |-> (i - 1) \in S]

\* the masks the caller tries: one record flagged, one atomic group flagged,
\* every record flagged that the seeded variable does not depend on and that
\* has a result
Masks ==
  {MaskOf({i}) : i \in OpIdx}
    \cup {MaskOf(g) : g \in Groups(0)}
    \cup {MaskOf({i \in OpIdx \ LiveOps : i > 0 /\ NumRes(TP(i).op) > 0})}

\* a call on tape t, at order dd, with Taylor coefficients ty and the adjoint
\* matrix P, seeded on dependent variable v, in a build with (nd) or without
\* NDEBUG
InitArgs(t, dd, ty, v, nd, P, mask) ==
  /\ play = PlayerOf(t)
  /\ tp_ = TapePoints(t)
  /\ parameter = <<3, 5>>
  /\ Taylor = ty
  /\ var_by_load_op = t.load
  /\ cskip_op = mask
  /\ d = dd
  /\ NDEBUG = nd
  /\ Partial = P
  /\ Partial0 = P
  /\ dep = v
  /\ op = "indeterminate" /\ arg = 0 /\ i_op = -1 /\ i_var = -1
  /\ user_state = "user_end"
  /\ user_index = 0 /\ user_id = 0
  /\ user_i = 0 /\ user_j = 0 /\ user_m = 0 /\ user_n = 0
  /\ user_ix = <<>> /\ user_tx = <<>> /\ user_ty = <<>>
  /\ user_px = <<>> /\ user_py = <<>>
  /\ user_atom = NULL /\ user_ok = FALSE
  /\ pc = "start" /\ fatal = [name |-> NULL, text |-> ""]
  /\ sweep = "full" /\ op_mark_index_ = <<>> /\ it = 0
  /\ run = 1 /\ ref = <<>> /\ ncall = 0
  /\ atom_id = [a \in {0, 1, 3} |-> 0]
  /\ seen_id = NULL

\* the same with a skip mask that flags no record
InitSweep(t, dd, ty, v, nd, P) ==
  InitArgs(t, dd, ty, v, nd, P, [i \in 1..Len(t.recs) |-> FALSE])

\* the same when no other sweep runs
InitSeeded(t, dd, ty, v, nd, P) ==
  /\ InitSweep(t, dd, ty, v, nd, P)
  /\ other = [pc |-> "idle", id |-> 0, seen |-> NULL, left |-> 0]

\* the same with weight 1 on order dd of the row of v
InitCall(t, dd, ty, v, nd) ==
  InitSeeded(t, dd, ty, v, nd, Seed(SumRes(t.recs), dd, v, 1))

Init ==
  \E b \in Bodies, dd \in 0..MaxOrder, nd \in BOOLEAN :
    LET t == TapeOf(b)
        nv == SumRes(t.recs)
    IN \E v \in {x \in 1..(nv - 1) : x >= nv - 2} :
         InitCall(t, dd, TaylorOf(nv, dd, 0), v, nd)

\* the reference call has returned: the caller keeps the matrix it left, seeds
\* the matrix again and calls ReverseSweep with a skip mask
CallWithMask ==
  /\ pc = "done" /\ run = 1
  /\ ref' = Partial
  /\ Partial' = Partial0
  /\ run' = 2
  /\ pc' = "start"
  /\ sweep' = "full"
  /\ cskip_op' \in Masks
  /\ UNCHANGED <<inputs, cursor, user, fatal, marks, calls, dep, Partial0,
                 other>>

\* the same, and the second call is myReverseSweep for the seeded variable
CallSelective ==
  /\ pc = "done" /\ run = 1
  /\ ref' = Partial
  /\ Partial' = Partial0
  /\ run' = 2
  /\ pc' = "start"
  /\ sweep' = "selective"
  /\ UNCHANGED <<inputs, cursor, user, fatal, marks, calls, dep, Partial0,
                 cskip_op, other>>

FullSweep ==
  \/ ReverseStart
  \/ ReverseNext
  \/ SkipRecord
  \/ CaseBeginOp
  \/ CaseCSkipOp
  \/ CaseCSumOp
  \/ CaseLdpOp
  \/ CaseUserOp
  \/ CaseDefault

SelectiveSweep ==
  \/ myReverseStart
  \/ myReverseNext
  \/ myReverseEnd
  \/ myCaseBeginOp
  \/ myCaseCSumOp
  \/ myCaseLdpOp
  \/ myCaseUserOp
  \/ myCaseDefault

\* the cases the two sweeps have in common
SharedCases ==
  \/ CaseAddvvOp
  \/ CaseSubvvOp
  \/ CaseMulvvOp
  \/ CaseMulpvOp
  \/ CaseNoRule
  \/ CaseUsrapOp
  \/ CaseUsravOp
  \/ CaseUsrrpOp
  \/ CaseUsrrvOp

Next == FullSweep \/ SelectiveSweep \/ SharedCases \/ CallWithMask \/ CallSelective

Spec == Init /\ [][Next]_vars


\* ------------------------------------------------------------------ properties
\* the independent-variable rows of the adjoint matrix are those the reference
\* call left
IndependentRowsAgree == \A v \in 1..n : Row(Partial, v) = Row(ref, v)

\* C1: for every tape, dependent variable and seed on that
\* variable's row, myReverseSweep over the variable's marked operators leaves
\* in rows 1..n, at every order, the adjoints ReverseSweep leaves
SelectiveFullEquivalence ==
  (run = 2 /\ sweep = "selective" /\ pc = "done" /\ ~IndependentRowsAgree)
    => ~ValidTape(0)

\* the two sweeps do agree on the tapes that hold no indirect load
SelectiveFullEquivalenceNoLoads ==
  (run = 2 /\ sweep = "selective" /\ pc = "done" /\ ~IndependentRowsAgree)
    => ~(ValidTape(0) /\ NoLoads)

\* myReverseSweep has returned from a tape without loads on which the seeded
\* variable depends on the independent variables through an atomic group
SelectiveReturned ==
  /\ run = 2 /\ sweep = "selective" /\ pc = "done"
  /\ ValidTape(0) /\ NoLoads
  /\ ncall = 1 /\ Len(op_mark_index_) > 5
  /\ \E v \in 1..n : Row(Partial, v)[d] # 0

\* the records the skip mask flags
Flagged == {i \in OpIdx : At(cskip_op, i)}

\* the mask flags only records no result of which reaches the seeded variable
DeadMask == Flagged \subseteq (OpIdx \ LiveOps)

\* the mask flags no BeginOp and no CSkipOp, and of an atomic group either
\* every record or none
OperatorMask ==
  \A i \in Flagged :
    /\ TP(i).op \notin {"BeginOp", "CSkipOp"}
    /\ TP(i).op \in AtomicOps =>
         \E e \in GroupEnds(0) :
           /\ GroupStart(e) <= i /\ i <= e
           /\ GroupStart(e)..e \subseteq Flagged

\* the call with the mask returns as the reference call did, with the same
\* independent-variable rows
SkipAgrees ==
  /\ pc \notin {"fatal", "ub"}
  /\ pc = "done" => IndependentRowsAgree

\* C2: with every skip mask that flags only records whose results
\* cannot reach the seeded variable, ReverseSweep leaves the same adjoints in
\* rows 1..n as with the all-false mask
DeadSkipEquivalence ==
  (run = 2 /\ sweep = "full" /\ ~SkipAgrees) => ~(ValidTape(0) /\ DeadMask)

\* the two calls do agree for the masks that, besides, flag no BeginOp, no
\* CSkipOp and no atomic group in part
DeadOperatorSkipEquivalence ==
  (run = 2 /\ sweep = "full" /\ ~SkipAgrees)
    => ~(ValidTape(0) /\ OperatorMask /\ DeadMask)

\* a call with a mask that flags a dead CSumOp recorded after a live operator
\* has returned
DeadOperatorSkipped ==
  /\ run = 2 /\ sweep = "full" /\ pc = "done"
  /\ ValidTape(0) /\ OperatorMask /\ DeadMask
  /\ \E i \in Flagged, j \in LiveOps :
       TP(i).op = "CSumOp" /\ j < i /\ TP(j).op = "MulvvOp"
  /\ \E v \in 1..n : Row(Partial, v)[d] # 0

\* ---- the atomic protocol
\* the group record i lies in
GroupEndAt(i, lo) ==
  CHOOSE e \in GroupEnds(lo) : GroupStart(e) <= i /\ i <= e

InGroup(i, lo) == \E e \in GroupEnds(lo) : GroupStart(e) <= i /\ i <= e

\* the groups recorded after record i: those the sweep has been through when
\* it fetches record i
GroupsAfter(i, lo) == Cardinality({e \in GroupEnds(lo) : GroupStart(e) > i})

\* what the atomic state and counters are when record i is fetched, by the
\* place of i in its group: start marker s, n argument tokens, m result
\* tokens, end marker e
ExpectedAt(i, lo) ==
  /\ ncall = GroupsAfter(i, lo)
  /\ IF ~InGroup(i, lo) THEN user_state = "user_end"
     ELSE LET e == GroupEndAt(i, lo)
              s == GroupStart(e)
              nn == TPArg(e, 2)
              mm == TPArg(e, 3)
          IN CASE i = e -> user_state = "user_end"
               [] i < e /\ i > s + nn ->
                    /\ user_state = "user_ret"
                    /\ user_i = i - (s + nn) /\ user_j = nn
                    /\ user_n = nn /\ user_m = mm
               [] i <= s + nn /\ i > s ->
                    /\ user_state = "user_arg"
                    /\ user_i = 0 /\ user_j = i - s
               [] OTHER ->
                    /\ user_state = "user_start"
                    /\ user_i = 0 /\ user_j = 0

\* the mask flags no marker, no token, no BeginOp and no CSkipOp
PlainMask ==
  \A i \in Flagged : TP(i).op \notin (AtomicOps \cup {"BeginOp", "CSkipOp"})

\* on a tape whose groups have at least lo arguments and lo results each, the
\* full sweep fetches every record in the state and with the counters its
\* place in the group gives, and returns in state user_end with one call of
\* the reverse routine per group
ProtocolFollowed(lo) ==
  (sweep = "full" /\ pc \in {"fetched", "done"} /\ PlainMask /\ ValidTape(lo))
    => /\ pc = "fetched" => ExpectedAt(i_op, lo)
       /\ pc = "done" =>
            /\ user_state = "user_end"
            /\ ncall = Cardinality(GroupEnds(lo))

\* C3: every atomic group met as end marker, m result tokens, n
\* argument tokens, start marker takes the full sweep through user_end,
\* user_ret, user_arg, user_start, user_end, the counters going down by one
\* per token, and the reverse routine is called once per group, at the start
\* marker in state user_start
AtomicStateMachine == ProtocolFollowed(0)

\* the protocol is followed on the tapes whose groups have at least one
\* argument and one result
AtomicStateMachineNonEmpty == ProtocolFollowed(1)

\* the full sweep has returned from a tape with two groups, one of them with
\* two arguments and two results
TwoGroupsSwept ==
  /\ sweep = "full" /\ pc = "done" /\ PlainMask /\ ValidTape(1)
  /\ ncall = 2 /\ user_n # user_m

\* ---- the scatter
\* a marker or token record is about to be dispatched
StartMarker == Live /\ op = "UserOp" /\ user_state # "user_end"
EndMarker == Live /\ op = "UserOp" /\ user_state = "user_end"
Token == Live /\ op \in {"UsrapOp", "UsravOp", "UsrrpOp", "UsrrvOp"}

\* what the slots that hold variable v bring to order ell of its row, with the
\* argument adjoints the routine has returned
ScatterSum(v, ell) ==
  SumFn([j \in 0..(user_n - 1) |->
           IF v > 0 /\ At(user_ix, j) = v
           THEN At(user_px', j * (d + 1) + ell) ELSE 0],
        0, user_n - 1)

ScatterEffect ==
  /\ (StartMarker /\ pc' = "next") =>
       \A v \in 0..(numvar - 1), ell \in 0..d :
         At(Partial', v * K + ell) = At(Partial, v * K + ell) + ScatterSum(v, ell)
  /\ (EndMarker \/ Token) => Partial' = Partial

\* C4: at the start marker, once the reverse routine has returned, every entry
\* Partial[ix[j]*K + ell] with ix[j] > 0 is increased by px[j*(d+1) + ell],
\* parameter slots bring nothing, a variable in several slots gets the sum of
\* them, and no other entry is changed by a record of the group
AtomicScatter == [][ScatterEffect]_vars

\* the scatter of a group that holds one variable in both of its slots has run
SharedSlotScattered ==
  /\ pc = "next" /\ op = "UserOp" /\ user_state = "user_end" /\ ncall = 1
  /\ user_n = 2 /\ At(user_ix, 0) > 0 /\ At(user_ix, 0) = At(user_ix, 1)
  /\ \E ell \in 0..d : At(user_px, ell) # 0


\* ---- the end of the full sweep
BeginDispatched == Live /\ sweep = "full" /\ op = "BeginOp"

\* the full sweep returns only from a BeginOp and goes to no record after one;
\* on a recording the BeginOp is met at record 0, variable 0, and the sweep
\* returns; a BeginOp met elsewhere is fatal (in every build, or in the builds
\* without NDEBUG)
SweepEnd(every_build) ==
  /\ (sweep = "full" /\ pc # "done" /\ pc' = "done") => BeginDispatched
  /\ BeginDispatched => pc' \in {"done", "fatal"}
  /\ (BeginDispatched /\ ValidTape(0)) =>
       (i_op = 0 /\ i_var = 0 /\ pc' = "done")
  /\ (BeginDispatched /\ (every_build \/ ~NDEBUG) /\ ~(i_op = 0 /\ i_var = 0))
       => pc' = "fatal"

\* C5 as stated: the full sweep ends exactly when a BeginOp is dispatched and
\* goes to no record after it; on a recording this is at record 0, variable 0;
\* a BeginOp dispatched anywhere else is a fatal error, not a return
EndsAtBegin == [][SweepEnd(TRUE)]_vars

\* C5: the same, the fatal error being raised in the builds without NDEBUG
EndsAtBeginChecked == [][SweepEnd(FALSE)]_vars

\* a BeginOp recorded after record 0 has stopped a sweep with a fatal error
StrayBeginFatal ==
  /\ ~NDEBUG /\ sweep = "full" /\ pc = "fatal"
  /\ op = "BeginOp" /\ i_op > n /\ i_var > 0

\* ---- the errors of the atomic protocol
\* the end marker names a callback the registry does not hold
MissingCallback == EndMarker /\ class_object(Arg(0)) = NULL

MissingCallbackAbort ==
  /\ pc' = "fatal"
  /\ fatal' = [name |-> class_name(Arg(0)),
               text |-> "atomic_base function has been deleted"]

\* C6: when the end marker of a group names a callback that the
\* registry does not hold, the sweep aborts with the missing-callback
\* condition and has changed no row of the adjoint matrix since it was entered
MissingCallbackAborts ==
  [][MissingCallback => (MissingCallbackAbort /\ Partial' = Partial0)]_vars

\* in a build without NDEBUG the full sweep does abort at that end marker with
\* the condition that names the callback, and the marker changes no row
MissingCallbackAbortsChecked ==
  [][(MissingCallback /\ sweep = "full" /\ ~NDEBUG)
       => (MissingCallbackAbort /\ Partial' = Partial)]_vars

\* a sweep has aborted at the end marker of a deleted callback after it had
\* changed the adjoint matrix
DeletedAfterChange ==
  /\ ~NDEBUG /\ sweep = "full" /\ pc = "fatal" /\ op = "UserOp"
  /\ fatal.text = "atomic_base function has been deleted"
  /\ Partial # Partial0

\* the reverse routine is called at this start marker and returns false
CallbackFails ==
  /\ StartMarker /\ sweep = "full" /\ ncall' = ncall + 1
  /\ ~atomic_reverse(user_atom, user_k, user_tx, user_ty, user_px, user_py).ok

\* C7 as stated: when the reverse routine reports failure at a start marker
\* the full sweep aborts, adds nothing to the adjoint matrix and goes to no
\* further record
CallbackFailureAborts ==
  [][CallbackFails => (pc' = "fatal" /\ Partial' = Partial)]_vars

\* C7: the same in a build without NDEBUG
CallbackFailureAbortsChecked ==
  [][(CallbackFails /\ ~NDEBUG) => (pc' = "fatal" /\ Partial' = Partial)]_vars

\* a sweep has aborted on the false returned by a reverse routine it called
ReverseFalseFatal ==
  /\ ~NDEBUG /\ sweep = "full" /\ pc = "fatal" /\ ncall = 1
  /\ fatal = [name |-> class_name(3),
              text |-> "atomic_base.reverse: returned false"]

\* one of the four values of the start marker is not the one saved at the
\* end marker
MarkerMismatch ==
  /\ StartMarker
  /\ <<user_index, user_id, user_n, user_m>> # <<Arg(0), Arg(1), Arg(2), Arg(3)>>

\* C8 as stated: a start marker that differs in one of the four values from
\* the end marker is a fatal error, raised before the reverse routine is
\* called and before anything is added to the adjoint matrix
MarkerMismatchFatal ==
  [][MarkerMismatch =>
       (pc' = "fatal" /\ ncall' = ncall /\ Partial' = Partial)]_vars

\* C8: the same in a build without NDEBUG
MarkerMismatchFatalChecked ==
  [][(MarkerMismatch /\ ~NDEBUG) =>
       (pc' = "fatal" /\ ncall' = ncall /\ Partial' = Partial)]_vars

\* a start marker with another instance id, met in state user_start, has
\* stopped the sweep
OtherIdFatal ==
  /\ ~NDEBUG /\ pc = "fatal" /\ op = "UserOp" /\ ncall = 0
  /\ user_state = "user_start" /\ user_index = Arg(0) /\ user_id # Arg(1)

\* a token or marker out of place in its group
Misnested ==
  /\ Live
  /\ \/ op \in {"UsrrpOp", "UsrrvOp"} /\ user_state # "user_ret"
     \/ op \in {"UsrapOp", "UsravOp"} /\ user_state # "user_arg"
     \/ op = "UserOp" /\ user_state \in {"user_ret", "user_arg"}

\* C9 as stated: a result token met outside user_ret, an argument token met
\* outside user_arg and a marker met in user_ret or user_arg each raise a
\* fatal error and change neither the atomic state nor the buffers
MisnestingFatal ==
  [][Misnested =>
       (pc' = "fatal" /\ UNCHANGED <<user_state, user_i, user_j, user_buf>>)]_vars

\* C9: the same in a build without NDEBUG
MisnestingFatalChecked ==
  [][(Misnested /\ ~NDEBUG) =>
       (pc' = "fatal" /\ UNCHANGED <<user_state, user_i, user_j, user_buf>>)]_vars

\* an argument token met while results are collected has stopped the sweep
EarlyArgumentFatal ==
  /\ ~NDEBUG /\ pc = "fatal" /\ op = "UsravOp" /\ user_state = "user_ret"
  /\ user_j > 0


\* ------------------------------------------------------------------ the product rule
\* the Taylor matrix of the recording y = x1 * x2 at order 1, with
\* x1 = (a0, a1) and x2 = (b0, b1): y = (a0 b0, a0 b1 + a1 b0); the other
\* rows are zero
ProductTaylor(nv, a, b) ==
  [idx \in 1..(nv * 2) |->
     LET i == (idx - 1) \div 2
         k == (idx - 1) % 2
     IN CASE i = 1 -> a[k]
          [] i = 2 -> b[k]
          [] i = nv - 1 ->
               IF k = 0 THEN a[0] * b[0] ELSE a[0] * b[1] + a[1] * b[0]
          [] OTHER -> 0]

\* the coefficients of x1 and x2 are the integers of magnitude up to MaxVal
Coefficients == [0..1 -> (0 - MaxVal)..MaxVal]

\* the tape BeginOp, InvOp x1 .. xn, MulvvOp y = x1 * x2, EndOp, order 1, the
\* adjoint row of y seeded with (0, 1)
InitMul ==
  \E a \in Coefficients, b \in Coefficients, nd \in BOOLEAN :
    LET t == TapeOf(<<"mul12">>)
        nv == SumRes(t.recs)
    IN InitCall(t, 1, ProductTaylor(nv, a, b), nv - 1, nd)

NextMul ==
  \/ ReverseStart
  \/ ReverseNext
  \/ CaseMulvvOp
  \/ CaseNoRule
  \/ CaseBeginOp

SpecMul == InitMul /\ [][NextMul]_vars

\* C10: on that tape, at order 1, with Taylor rows x1 = (a0, a1) and
\* x2 = (b0, b1) and the adjoint row of y seeded with (0, 1), the full sweep
\* returns with the adjoint row (b1, b0) for x1 and (a1, a0) for x2
ProductRule ==
  (/\ pc = "done" /\ sweep = "full" /\ d = 1
   /\ TP(n + 1).op = "MulvvOp" /\ TPArg(n + 1, 0) = 1 /\ TPArg(n + 1, 1) = 2
   /\ Row(Partial0, n + 1) = [k \in 0..1 |-> k])
    => /\ Row(Partial, 1) = [k \in 0..1 |-> TRow(2)[1 - k]]
       /\ Row(Partial, 2) = [k \in 0..1 |-> TRow(1)[1 - k]]

\* the sweep has returned for x1 = (2, -1) and x2 = (-2, 1)
ProductSwept ==
  /\ pc = "done" /\ sweep = "full" /\ d = 1 /\ TP(n + 1).op = "MulvvOp"
  /\ Row(Partial0, n + 1) = [k \in 0..1 |-> k]
  /\ TRow(1) = [k \in 0..1 |-> 2 - 3 * k]
  /\ TRow(2) = [k \in 0..1 |-> 3 * k - 2]
  /\ Row(Partial, 1) = [k \in 0..1 |-> 1 - 3 * k]


\* ------------------------------------------------------------------ the sum rule
\* values the forward Taylor coefficients of x1 and x2 are drawn from
TaylorValues == {0 - MaxVal, 1, MaxVal}

\* the Taylor matrix of the recording y = x1 + x2 at order dd, with the rows a
\* of x1 and b of x2; the other rows are zero
SumTaylor(nv, dd, a, b) ==
  [idx \in 1..(nv * (dd + 1)) |->
     LET i == (idx - 1) \div (dd + 1)
         k == (idx - 1) % (dd + 1)
     IN CASE i = 1 -> a[k]
          [] i = 2 -> b[k]
          [] i = nv - 1 -> a[k] + b[k]
          [] OTHER -> 0]

\* the adjoint matrix with weight 1 on order k of row v, at order dd
UnitSeed(nv, dd, v, k) ==
  [idx \in 1..(nv * (dd + 1)) |-> IF idx - 1 = v * (dd + 1) + k THEN 1 ELSE 0]

\* the tape BeginOp, InvOp x1 .. xn, AddvvOp y = x1 + x2, EndOp, at every order
\* up to MaxOrder, weight 1 on one order of the row of y
InitAdd ==
  \E dd \in 0..MaxOrder, nd \in BOOLEAN :
    \E a \in [0..dd -> TaylorValues], b \in [0..dd -> TaylorValues],
       k \in 0..dd :
      LET t == TapeOf(<<"add12">>)
          nv == SumRes(t.recs)
      IN InitSeeded(t, dd, SumTaylor(nv, dd, a, b), nv - 1, nd,
                    UnitSeed(nv, dd, nv - 1, k))

NextAdd ==
  \/ ReverseStart
  \/ ReverseNext
  \/ CaseAddvvOp
  \/ CaseNoRule
  \/ CaseBeginOp

SpecAdd == InitAdd /\ [][NextAdd]_vars

\* C11: on the tape BeginOp, InvOp x1, InvOp x2, AddvvOp y = x1 + x2, EndOp, at
\* any order, with weight 1 on the row of y, the full sweep returns with the
\* rows of x1 and x2 equal to each other and to the seeded row (weight 1 at
\* the seeded order, 0 at the others), whatever the Taylor rows of x1 and x2
SumRule ==
  (/\ pc = "done" /\ sweep = "full"
   /\ TP(n + 1).op = "AddvvOp" /\ TPArg(n + 1, 0) = 1 /\ TPArg(n + 1, 1) = 2)
    => /\ Row(Partial, 1) = Row(Partial, 2)
       /\ Row(Partial, 1) = Row(Partial0, n + 1)
       /\ SumFn(Row(Partial, 1), 0, d) = 1
       /\ \A k \in 0..d : Row(Partial, 1)[k] \in {0, 1}

\* the sweep has returned at order 1 for x1 = (2, -2) and x2 = (1, 2), with
\* the weight on order 0 of y
SumSwept ==
  /\ pc = "done" /\ sweep = "full" /\ d = 1 /\ TP(n + 1).op = "AddvvOp"
  /\ TRow(1) = [k \in 0..1 |-> 2 - 4 * k]
  /\ TRow(2) = [k \in 0..1 |-> 1 + k]
  /\ Row(Partial0, n + 1) = [k \in 0..1 |-> 1 - k]
  /\ Row(Partial, 1) = [k \in 0..1 |-> 1 - k]
  /\ Row(Partial, 2) = [k \in 0..1 |-> 1 - k]


\* ------------------------------------------------------------------ the atomic round trip
\* the Taylor matrix of the recording y1 = x1^2, y2 = x2^2 at order dd <= 1,
\* with the rows a of x1 and b of x2: y = (x0 x0, 2 x0 x1)
SquareTaylor(nv, dd, a, b) ==
  [idx \in 1..(nv * (dd + 1)) |->
     LET i == (idx - 1) \div (dd + 1)
         k == (idx - 1) % (dd + 1)
         x == IF i = nv - 2 THEN a ELSE b
     IN CASE i = 1 -> a[k]
          [] i = 2 -> b[k]
          [] i >= nv - 2 -> IF k = 0 THEN x[0] * x[0] ELSE 2 * x[0] * x[1]
          [] OTHER -> 0]

\* the tape BeginOp, InvOp x1 .. xn, one atomic group of the element-wise
\* square with arguments x1, x2 and results y1, y2, EndOp; at order 0 and at
\* order 1, with weight 1 on one order of the row of y1 and on one order of
\* the row of y2
InitSquare ==
  \E dd \in 0..1, nd \in BOOLEAN :
    \E a \in [0..dd -> TaylorValues], b \in [0..dd -> TaylorValues],
       k1 \in 0..dd, k2 \in 0..dd :
      LET t == TapeOf(<<"sq12">>)
          nv == SumRes(t.recs)
          s1 == UnitSeed(nv, dd, nv - 2, k1)
          s2 == UnitSeed(nv, dd, nv - 1, k2)
      IN InitSeeded(t, dd, SquareTaylor(nv, dd, a, b), nv - 1, nd,
                    [idx \in 1..(nv * (dd + 1)) |-> s1[idx] + s2[idx]])

NextSquare ==
  \/ ReverseStart
  \/ ReverseNext
  \/ CaseUserOp
  \/ CaseUsravOp
  \/ CaseUsrrvOp
  \/ CaseNoRule
  \/ CaseBeginOp

SpecSquare == InitSquare /\ [][NextSquare]_vars

\* the chain rule through y = x^2 by hand, for the Taylor row x of the
\* argument and the adjoint row s of the result: at order 0 the adjoint of x0
\* is 2 x0 s0; at order 1, y0 = x0^2 and y1 = 2 x0 x1 give
\* 2 x0 s0 + 2 x1 s1 for x0 and 2 x0 s1 for x1
HandSquare(x, s) ==
  [a \in 0..d |->
     IF d = 0 THEN 2 * x[0] * s[0]
     ELSE IF a = 0 THEN 2 * x[0] * s[0] + 2 * x[1] * s[1]
     ELSE 2 * x[0] * s[1]]

\* C12: on a tape with one atomic group that wraps the element-wise square,
\* at order 0 and at order 1, the full sweep returns with, in the row of each
\* independent variable, the adjoint the chain rule gives by hand
AtomicRoundTrip ==
  (/\ pc = "done" /\ sweep = "full" /\ d <= 1
   /\ IsGroupEnd(n + 6, 1) /\ TPArg(n + 6, 0) = 0
   /\ TPArg(n + 2, 0) = 1 /\ TPArg(n + 3, 0) = 2)
    => /\ Row(Partial, 1) = HandSquare(TRow(1), Row(Partial0, n + 1))
       /\ Row(Partial, 2) = HandSquare(TRow(2), Row(Partial0, n + 2))
       /\ ncall = 1

\* the sweep has returned at order 1 for x1 = (2, 1) and x2 = (-2, 2), with
\* the weight on order 1 of y1 and on order 0 of y2
SquareSwept ==
  /\ pc = "done" /\ sweep = "full" /\ d = 1 /\ IsGroupEnd(n + 6, 1)
  /\ TRow(1) = [k \in 0..1 |-> 2 - k]
  /\ TRow(2) = [k \in 0..1 |-> 4 * k - 2]
  /\ Row(Partial0, n + 1) = [k \in 0..1 |-> k]
  /\ Row(Partial0, n + 2) = [k \in 0..1 |-> 1 - k]
  /\ Row(Partial, 1) = [k \in 0..1 |-> 2 + 2 * k]
  /\ Row(Partial, 2) = [k \in 0..1 |-> 4 * k - 4]


\* ------------------------------------------------------------------ what a sweep changes
\* a step of a sweep (the caller acts when a call has returned)
SweepStep == pc # "done"

\* a sweep leaves the tape, the parameters, the Taylor matrix, the skip mask
\* and the load map as they are; the instance id of a callback object changes
\* only at a start marker of the full sweep, which gives the id of the group to
\* the object it calls, and the marked operator list of the function object
\* only when the selective sweep starts; or (strict) neither changes at all
SweepFrame(strict) ==
  SweepStep =>
    /\ UNCHANGED <<play, tp_, parameter, Taylor, cskip_op, var_by_load_op>>
    /\ atom_id' # atom_id =>
         /\ ~strict
         /\ StartMarker /\ sweep = "full"
         /\ atom_id' = set_id(atom_id, user_atom, user_id)
    /\ op_mark_index_' # op_mark_index_ =>
         /\ ~strict
         /\ pc = "start" /\ sweep = "selective"

\* C13 as stated: throughout a full or selective sweep the tape, the
\* parameters, the Taylor matrix, the skip mask and the load map keep their
\* values, and the sweep changes nothing but the adjoint matrix, the cursor
\* and its own buffers
BorrowedOnly == [][SweepFrame(TRUE)]_vars

\* C13: the same, but for the instance id the full sweep gives to the callback
\* object at a start marker and the marked operator list the selective sweep
\* has the function object compute when it starts
BorrowedUnchanged == [][SweepFrame(FALSE)]_vars

\* the selective sweep has returned, after the full sweep, from a tape with an
\* atomic group: the adjoint matrix has changed, the callback object holds the
\* id of the group and the function object a marked operator list
BothSweepsReturned ==
  /\ run = 2 /\ sweep = "selective" /\ pc = "done"
  /\ Partial # Partial0 /\ ncall = 1
  /\ atom_id[0] = 7 /\ Len(op_mark_index_) > 5


\* ------------------------------------------------------------------ two sweeps at a time
\* Two calls of ReverseSweep run at the same time, each with its own
\* matrices, cursor and buffers, on tapes whose groups name callback object 0.
\* Nothing in lines 611-615 keeps the two apart, so set_id and the call of the
\* reverse routine are two steps here. The first sweep is the one above; of the
\* second only its start markers are kept: other.left groups to go, each with
\* instance id other.id.

\* lines 572-603: the end marker of a group
CaseUserOpEnd ==
  /\ Live /\ sweep = "full" /\ op = "UserOp" /\ user_state = "user_end"
  /\ UserOpEnd
  /\ UNCHANGED <<inputs, cursor, marks, caller>>

\* lines 604-612: the start marker is checked and the id of the group is given
\* to the callback object
StartSetId ==
  /\ Live /\ sweep = "full" /\ op = "UserOp" /\ user_state # "user_end"
  /\ IF ~NDEBUG /\ ~(user_state = "user_start" /\ MarkerMatches)
     THEN Abort("unknown") /\ UNCHANGED calls
     ELSE IF user_atom = NULL
     THEN Undefined /\ UNCHANGED calls
     ELSE /\ atom_id' = set_id(atom_id, user_atom, user_id)
          /\ pc' = "set_id"
          /\ fatal' = fatal
          /\ UNCHANGED <<ncall, seen_id>>
  /\ UNCHANGED <<inputs, Partial, cursor, user, marks, caller>>

\* lines 613-630: the reverse routine is called with the id the object holds
\* by then
StartCall ==
  /\ pc = "set_id"
  /\ atom_id' = atom_id
  /\ CallReverse(atom_id)
  /\ UNCHANGED <<inputs, cursor, marks, caller>>

\* line 612 in the second sweep
OtherSetId ==
  /\ other.pc = "idle" /\ other.left > 0
  /\ class_object(0) # NULL
  /\ atom_id' = set_id(atom_id, class_object(0), other.id)
  /\ other' = [other EXCEPT !.pc = "set_id"]
  /\ UNCHANGED <<inputs, Partial, cursor, user, pc, fatal, marks, ncall,
                 seen_id, run, dep, Partial0, ref, sweep, cskip_op>>

\* lines 613-615 in the second sweep
OtherCall ==
  /\ other.pc = "set_id"
  /\ other' = [other EXCEPT !.pc = "idle",
                            !.seen = atom_id[class_object(0)],
                            !.left = other.left - 1]
  /\ UNCHANGED <<inputs, Partial, cursor, user, pc, fatal, marks, calls,
                 run, dep, Partial0, ref, sweep, cskip_op>>

\* the instance ids of the groups of the second sweep
OtherIds == {7, 9}

InitTwo ==
  \E b \in {<<"sq11">>, <<"sq12">>, <<"sq11", "sq11">>}, dd \in 0..MaxOrder,
     nd \in BOOLEAN, oid \in OtherIds, left \in 1..2 :
    LET t == TapeOf(b)
        nv == SumRes(t.recs)
    IN /\ InitSweep(t, dd, TaylorOf(nv, dd, 0), nv - 1, nd,
                    Seed(nv, dd, nv - 1, 1))
       /\ other = [pc |-> "idle", id |-> oid, seen |-> NULL, left |-> left]

NextTwo ==
  \/ ReverseStart
  \/ ReverseNext
  \/ CaseBeginOp
  \/ CaseNoRule
  \/ CaseUserOpEnd
  \/ CaseUsravOp
  \/ CaseUsrrvOp
  \/ StartSetId
  \/ StartCall
  \/ OtherSetId
  \/ OtherCall

SpecTwo == InitTwo /\ [][NextTwo]_vars

\* C14: when two full sweeps run at the same time and reach the same callback
\* object, every call of its reverse routine finds in the object the instance
\* id the calling sweep has set for that call
InstanceIdKept ==
  [][/\ (pc = "set_id" /\ ncall' = ncall + 1) => seen_id' = user_id
     /\ (other.pc = "set_id" /\ other'.pc = "idle") => other'.seen = other.id]_vars


\* ------------------------------------------------------------------ flagged records
\* the full sweep is on a record the skip mask flags
OnFlagged == pc = "fetched" /\ sweep = "full" /\ At(cskip_op, i_op)

\* C15: passing a record the skip mask flags, the full sweep moves the cursor
\* one record back and does nothing else: no rule, no change of the atomic
\* state, counters and buffers, no call, and the same adjoint matrix after
\* as before
MaskedRecordOnlySteps ==
  [][OnFlagged =>
       /\ Partial' = Partial
       /\ user' = user
       /\ calls' = calls
       /\ inputs' = inputs
       /\ pc' = "fetched" => i_op' = i_op - 1]_vars

\* the mask call has passed a flagged record whose rule would have added the
\* nonzero adjoint of its result to the rows of its operands
MaskedRulePassed ==
  /\ run = 2 /\ sweep = "full" /\ pc \in {"fetched", "next", "done"}
  /\ \E k \in OpIdx :
       /\ k > i_op /\ At(cskip_op, k)
       /\ TP(k).op \in {"AddvvOp", "MulvvOp"}
       /\ Row(Partial, TP(k).var_index)[d] # 0


\* ------------------------------------------------------------------ one backward pass
\* C16: the full sweep is one backward pass. It starts on the EndOp record,
\* which it does not dispatch; every fetch, by the main loop or by the skip
\* loop, is of the record just below the one fetched before; a record that is
\* dispatched is left without being fetched again. So the records dispatched
\* have strictly decreasing indices, each unflagged record is dispatched once,
\* and when a record is dispatched every unflagged record above it has been
SingleBackwardPass ==
  [][/\ (pc = "start" /\ sweep = "full" /\ pc' # "start") =>
          /\ i_op' = num_op_rec - 1
          /\ pc' \in {"next", "fatal"}
     /\ (sweep = "full" /\ pc \in {"next", "fetched"}) =>
          /\ i_op' \in {i_op, i_op - 1}
          /\ pc' = "fetched" <=> (i_op' = i_op - 1)
          /\ Live => pc' # "fetched"]_vars

\* a full sweep with a mask that flags a record has gone from EndOp down to
\* record 0 over at least six records and has returned
PassCompleted ==
  /\ run = 2 /\ sweep = "full" /\ pc = "done"
  /\ i_op = 0 /\ num_op_rec >= 6
  /\ Flagged # {} /\ ValidTape(0)


\* ------------------------------------------------------------------ tokens
\* the user_k1 entries of slot j of a buffer, by order
SlotRow(buf, j) == [ell \in 0..d |-> At(buf, j * user_k1 + ell)]

\* the row of a parameter: its value at order 0, zero above
ParRow(p) == [ell \in 0..d |-> IF ell = 0 THEN At(parameter, p) ELSE 0]

ZeroRow == [ell \in 0..d |-> 0]

\* C17: a result token processed in state user_ret fills result slot
\* user_i - 1 at orders 0..d: a variable result with the Taylor row and the
\* adjoint row of its variable, a parameter result with the parameter value at
\* order 0 of ty, zero at the higher orders of ty and in all of py; the
\* adjoint matrix is not changed
ResultTokenFills ==
  [][(/\ Live /\ op \in {"UsrrpOp", "UsrrvOp"}
      /\ user_state = "user_ret" /\ pc' = "next") =>
       /\ user_i' = user_i - 1
       /\ Partial' = Partial
       /\ op = "UsrrvOp" =>
            /\ SlotRow(user_ty', user_i - 1) = TRow(i_var)
            /\ SlotRow(user_py', user_i - 1) = Row(Partial, i_var)
       /\ op = "UsrrpOp" =>
            /\ SlotRow(user_ty', user_i - 1) = ParRow(Arg(0))
            /\ SlotRow(user_py', user_i - 1) = ZeroRow]_vars

\* both results of a group of two are in the buffers, at order 1 or higher:
\* the variable result with a nonzero adjoint in slot 1, the parameter
\* result in slot 0
ResultsCollected ==
  /\ pc = "next" /\ op = "UsrrpOp" /\ d >= 1
  /\ user_m = 2 /\ user_i = 0
  /\ SlotRow(user_py, 1)[d] # 0
  /\ SlotRow(user_ty, 0)[0] # 0


\* the full sweep is on the start marker of a group none of whose records the
\* mask flags, with every argument token of the group processed
AtStartMarker ==
  /\ pc = "fetched" /\ sweep = "full" /\ op = "UserOp"
  /\ user_state = "user_start" /\ user_j = 0
  /\ ValidTape(0)
  /\ \A k \in i_op..(i_op + user_n + user_m + 1) : ~At(cskip_op, k)

\* argument slot j holds the j-th argument of the group in forward order:
\* the token recorded j + 1 records after the start marker
ArgsInOrder ==
  \A j \in 0..(user_n - 1) :
    LET r == i_op + 1 + j
    IN /\ TP(r).op = "UsravOp" =>
            /\ At(user_ix, j) = TPArg(r, 0)
            /\ SlotRow(user_tx, j) = TRow(TPArg(r, 0))
       /\ TP(r).op = "UsrapOp" =>
            /\ At(user_ix, j) = 0
            /\ SlotRow(user_tx, j) = ParRow(TPArg(r, 0))

\* C18: an argument token processed in state user_arg fills argument slot
\* user_j - 1: a parameter argument with the parameter value at order 0 of
\* tx, zero at the higher orders and owner 0 in user_ix; a variable argument
\* with orders 0..d of the Taylor row of its variable and the index of the
\* variable as owner. When the n tokens of a group are processed, slot j
\* holds the j-th argument in forward order
ArgumentTokenFills ==
  /\ [][(/\ Live /\ op \in {"UsrapOp", "UsravOp"}
         /\ user_state = "user_arg" /\ pc' = "next") =>
          /\ user_j' = user_j - 1
          /\ op = "UsravOp" =>
               /\ At(user_ix', user_j - 1) = Arg(0)
               /\ SlotRow(user_tx', user_j - 1) = TRow(Arg(0))
          /\ op = "UsrapOp" =>
               /\ At(user_ix', user_j - 1) = 0
               /\ SlotRow(user_tx', user_j - 1) = ParRow(Arg(0))]_vars
  /\ [](AtStartMarker => ArgsInOrder)

\* the start marker of a group with a variable and a parameter argument is
\* fetched at order 1 or higher, both arguments in the buffers
ArgumentsCollected ==
  /\ AtStartMarker /\ d >= 1 /\ user_n = 2
  /\ TP(i_op + 1).op = "UsravOp" /\ TP(i_op + 2).op = "UsrapOp"
  /\ At(user_ix, 0) > 0 /\ At(user_ix, 1) = 0
  /\ SlotRow(user_tx, 0)[d] # 0 /\ SlotRow(user_tx, 1)[0] # 0


\* ------------------------------------------------------------------ records without a rule
\* C19: dispatching a ComOp, PriOp, DisOp, ParOp, InvOp, StppOp, StpvOp,
\* StvpOp or StvvOp record changes no entry of the adjoint matrix and leaves
\* the atomic state and its counters as they are, in ReverseSweep and in
\* myReverseSweep
NoRuleNoEffect ==
  [][(Live /\ op \in NoRuleOps) =>
       /\ Partial' = Partial
       /\ user_state' = user_state
       /\ user_i' = user_i
       /\ user_j' = user_j
       /\ pc' = "next"]_vars

\* myReverseSweep has dispatched a DisOp record with a nonzero adjoint in the
\* row of its result, at order 1 or higher
DiscreteDispatched ==
  /\ pc = "next" /\ sweep = "selective" /\ op = "DisOp" /\ IsVar(Arg(1))
  /\ d >= 1 /\ Row(Partial, i_var)[d] # 0


\* ------------------------------------------------------------------ variable-arity records
\* the full sweep, on a recorded tape, has passed the record the cursor was
\* on before (pc = "next": it was dispatched), or has fetched a record of
\* fixed arity, which reverse_next alone steps over
CursorSettled ==
  /\ sweep = "full" /\ ValidTape(0) /\ i_op \in OpIdx
  /\ \/ pc = "next"
     \/ pc = "fetched" /\ op \notin {"CSumOp", "CSkipOp"}

\* C20: every CSumOp and CSkipOp record the full sweep passes, dispatched or
\* flagged by the mask, is stepped over with reverse_csum or reverse_cskip, so
\* after any record the argument cursor is at the first argument of that
\* record
ArgCursorAligned == CursorSettled => arg = TP(i_op).op_arg

\* the same holds whenever the mask flags no CSkipOp record
ArgCursorAlignedLiveCSkip ==
  (CursorSettled /\ \A i \in Flagged : TP(i).op # "CSkipOp")
    => arg = TP(i_op).op_arg


\* ------------------------------------------------------------------ any skip mask
\* ReverseSweep called once on a tape that starts with BeginOp, with any skip
\* mask at all
MaskBodies == {<<"add">>, <<"add", "mul">>, <<"com", "add">>}

InitMask ==
  \E b \in MaskBodies, dd \in 0..MaxOrder, nd \in BOOLEAN :
    LET t == TapeOf(b)
        nv == SumRes(t.recs)
    IN \E mask \in [1..Len(t.recs) -> BOOLEAN] :
         /\ InitArgs(t, dd, TaylorOf(nv, dd, 0), nv - 1, nd,
                     Seed(nv, dd, nv - 1, 1), mask)
         /\ other = [pc |-> "idle", id |-> 0, seen |-> NULL, left |-> 0]

NextMask ==
  \/ ReverseStart
  \/ ReverseNext
  \/ SkipRecord
  \/ CaseBeginOp
  \/ CaseAddvvOp
  \/ CaseMulvvOp
  \/ CaseNoRule

\* the sweep is sequential code: its next statement is always executed
SpecMask == InitMask /\ [][NextMask]_vars /\ WF_vars(NextMask)

\* the step in which the full sweep, on record 0, asks the player for the
\* record before it: from the main loop, or from the skip loop when record 0
\* is flagged
AsksBeforeFirst ==
  /\ sweep = "full" /\ i_op = 0
  /\ pc = "next" \/ OnFlagged
  /\ pc' # pc

\* C21: on every tape that starts with BeginOp, with every skip mask, the
\* full sweep ends by returning or by a fatal error, and it never asks the
\* player for a record before record 0
SweepEnds ==
  /\ [][~AsksBeforeFirst]_vars
  /\ <>(pc \in {"done", "fatal"})


\* with a mask that leaves record 0 unflagged the sweep does end so
SweepEndsFirstLive ==
  /\ [][At(cskip_op, 0) \/ ~AsksBeforeFirst]_vars
  /\ <>(At(cskip_op, 0) \/ pc \in {"done", "fatal"})


\* ------------------------------------------------------------------ groups without arguments or results
\* the full sweep, with no record flagged, is on a recorded tape whose groups
\* have at least lo arguments and lo results
SweepingGroups(lo) == sweep = "full" /\ Flagged = {} /\ ValidTape(lo)

\* the start marker of a group is fetched
OnStartMarker(lo) ==
  /\ pc = "fetched" /\ op = "UserOp"
  /\ \E e \in GroupEnds(lo) : i_op = GroupStart(e)

\* a token or a marker of a group has failed a check of the atomic state
GroupCheckFailed ==
  /\ pc = "fatal" /\ fatal.text = "unknown"
  /\ op \in AtomicOps

\* the start marker is reached in state user_start, and no record of the
\* group fails a state check on the way, in groups of at least lo arguments
\* and lo results
ReadyAtStart(lo) ==
  SweepingGroups(lo) =>
    /\ OnStartMarker(lo) => user_state = "user_start"
    /\ ~GroupCheckFailed

\* C22: for every atomic group, also one recorded with no argument or with no
\* result, the atomic state is user_start when the start marker of the group
\* is dispatched, so that the marker calls the callback instead of failing
\* the state check
StartMarkerReady == ReadyAtStart(0)

\* it is so for the groups that have an argument and a result
StartMarkerReadyNonEmpty == ReadyAtStart(1)


\* ------------------------------------------------------------------ opcodes of the two sweeps
\* the switch of ReverseSweep has a case for CSkipOp that the switch of
\* myReverseSweep lacks, and the two BeginOp cases assert different argument
\* counts; every other case label is in both with the same checks.
\* C23: every opcode ReverseSweep dispatches without reaching its default
\* branch myReverseSweep dispatches without a fatal error too: CSkipOp, and
\* BeginOp with the counts ReverseSweep asserts for it (one argument, one
\* result), never end a step of myReverseSweep in a fatal error
SelectiveAcceptsFull ==
  [][(Live /\ sweep = "selective" /\ pc' = "fatal") =>
       /\ op # "CSkipOp"
       /\ op = "BeginOp" => ~(NumArg(op) = 1 /\ NumRes(op) = 1)]_vars


\* ------------------------------------------------------------------ indirect loads
\* the variable the load map gives for the load instruction of the current
\* record; 0 when the load resolved to a parameter
MapEntry == At(var_by_load_op, Arg(2))

\* a load record dispatched by one of the sweeps in S adds the adjoint row of
\* its result to the row of the variable the load map gives, and changes
\* nothing when the entry is 0
LoadThroughMap(S) ==
  (/\ Live /\ sweep \in S /\ op = "LdpOp"
   /\ HasArg(2) /\ Has(var_by_load_op, Arg(2)) /\ pc' = "next") =>
     Partial' = IF MapEntry > 0
                THEN AddRow(Partial, MapEntry, Row(Partial, i_var))
                ELSE Partial

\* C24: in both sweeps an indirect load record adds the adjoint row of its
\* result to the row of the variable the load map gives for the instruction,
\* and changes nothing when the map entry is 0
LoadUsesMap == [][LoadThroughMap({"full", "selective"})]_vars

\* ReverseSweep does so
LoadUsesMapFull == [][LoadThroughMap({"full"})]_vars


\* ------------------------------------------------------------------ buffer sizes
\* the step in which a start marker calls the reverse routine of the callback
CallbackCalled == Live /\ op = "UserOp" /\ ncall' = ncall + 1

\* the buffers have the sizes of the current group
ExactSizes ==
  /\ Len(user_tx) = user_n * user_k1
  /\ Len(user_px) = user_n * user_k1
  /\ Len(user_ty) = user_m * user_k1
  /\ Len(user_py) = user_m * user_k1

\* C25: at every call of a callback the argument buffers tx and px hold
\* exactly n * (d + 1) entries and the result buffers ty and py exactly
\* m * (d + 1), in ReverseSweep and in myReverseSweep, whatever groups were
\* swept before in the same call
BuffersExact == [][CallbackCalled => ExactSizes]_vars

\* ReverseSweep does so
BuffersExactFull ==
  [][(CallbackCalled /\ sweep = "full") => ExactSizes]_vars


\* ------------------------------------------------------------------ tape layout
\* the record under the cursor is not where the layout of a tape puts its
\* opcode: InvOp or BeginOp above record n, another opcode at or below it
LayoutBroken ==
  \/ i_op > n /\ op \in {"InvOp", "BeginOp"}
  \/ i_op <= n /\ op \notin {"InvOp", "BeginOp"}

\* C26: the full sweep checks the layout on every record it fetches: a record
\* above n that is InvOp or BeginOp, or a record at or below n that is
\* neither, is a fatal error and is never a fetched record to be processed
LayoutChecked == ~(sweep = "full" /\ pc = "fetched" /\ LayoutBroken)


\* ------------------------------------------------------------------ argument tokens off the tape
\* the variable argument token under the cursor names variable 0, or a
\* variable that is not defined yet at this point of the tape
UndefinedArgument ==
  Live /\ op = "UsravOp" /\ (Arg(0) = 0 \/ Arg(0) > i_var)

\* the token ends in a fatal error with the argument buffer and the owner
\* list as they were
TokenRejected ==
  /\ pc' = "fatal"
  /\ user_tx' = user_tx
  /\ user_ix' = user_ix

\* C27: a variable argument token whose variable index is 0 or greater than
\* the variable index of the cursor raises a fatal error and writes nothing
\* to the argument buffer and the owner list
UndefinedArgumentFatal == [][UndefinedArgument => TokenRejected]_vars

\* C27, in a build without NDEBUG
UndefinedArgumentFatalChecked ==
  [][(UndefinedArgument /\ ~NDEBUG) => TokenRejected]_vars

\* a token met in state user_arg, with arguments remaining, has raised the
\* fatal error for naming a variable defined after it
AheadArgumentFatal ==
  /\ pc = "fatal" /\ op = "UsravOp"
  /\ ArgTokenOK /\ Arg(0) > i_var


\* ------------------------------------------------------------------ assertions around the selective loop
\* myReverseSweep is at the assertion before its loop (line 798), or past the
\* last marked operator at the assertions after it (lines 1252-1254)
AtBracket ==
  /\ sweep = "selective"
  /\ pc = "start" \/ (pc = "next" /\ it = 0)

\* C28: the assertions before and after the loop of myReverseSweep hold for
\* every marked operator list: op is EndOp when the loop is entered, and the
\* cursor is on record 0, variable 0 when it is left, so neither ends the
\* sweep in a fatal error
BracketAssertionsHold == [][AtBracket => pc' # "fatal"]_vars


\* ------------------------------------------------------------------ open groups
\* C29: whenever the full sweep returns, the atomic state is user_end: a
\* tape on which BeginOp is reached inside an open group gives no normal
\* return
ReturnsClosed == (sweep = "full" /\ pc = "done") => user_state = "user_end"

\* it is so on recorded tapes whose groups have an argument and a result,
\* swept with no record flagged
ReturnsClosedRecorded ==
  (SweepingGroups(1) /\ pc = "done") => user_state = "user_end"

====
